---- MODULE Spec2Model ----
(***************************************************************************)
(* Anchor availability and adaptive rescheduling engine of goalie.app      *)
(* (src/app/agent/adaptive_scheduler.py).                                  *)
(*                                                                         *)
(* Time is counted in minutes of the user's local wall clock, minute 0     *)
(* being midnight of day 0.  A stored timestamp is a record                *)
(*   [kind, t, off]                                                        *)
(* kind = "none"  : NULL / empty string (falsy in Python)                  *)
(* kind = "bad"   : a string datetime.fromisoformat rejects (ValueError)    *)
(* kind = "naive" : a parseable string without UTC offset; t is its wall   *)
(*                  clock reading                                          *)
(* kind = "aware" : a parseable string with UTC offset; t is the instant   *)
(*                  in the user's local frame, off is the string's offset  *)
(*                  minus the user's offset, so that t + off is the wall   *)
(*                  clock the string itself shows (what .date() reads).    *)
(* Daylight-saving transitions are not modelled.                           *)
(***************************************************************************)
EXTENDS Integers, Sequences, FiniteSets, TLC

VARIABLES
    tasks,          \* the "tasks" table: task id -> row
    calendar,       \* what fetch_raw_calendar_events returns when it does not raise
    supabase,       \* TRUE iff the module-level client is configured (not None)
    now,            \* datetime.now(tz), in minutes
    availability,   \* record of the last get_available_anchors call
    slot,           \* record of the last find_next_available_slot call
    resched,        \* record of the last reschedule_task call
    sweep,          \* record of the last detect_and_reschedule_missed_tasks call
    prev_sweep,     \* record of the sweep before it, when nothing happened in between
    calls,          \* how many calls of the engine there have been
    resolved,       \* record of the last anchor_to_timestamp call
    procs           \* the calls in progress, each with its locals and its position

vars == <<tasks, calendar, supabase, now, availability, slot, resched, sweep, prev_sweep,
          calls, resolved, procs>>

(***************************************************************************)
(* Bounds of the model                                                     *)
(***************************************************************************)
NumTasks == 3
MaxDaysAhead == 2
MaxEvents == 1
MaxTicks == 1
MaxCalls == 2
MaxFaults == 1

TaskIds == 1..NumTasks
Users == {"u1", "u2"}

(***************************************************************************)
(* Time                                                                    *)
(***************************************************************************)
MinutesPerDay == 24 * 60
HM(h, m) == h * 60 + m
At(day, h, m) == day * MinutesPerDay + HM(h, m)
UtcOffset == 8 * 60  \* "+00:00" read from America/Los_Angeles (standard time)

None == "<null>"
NoMinutes == 0 - 1   \* a NULL estimated_minutes column

NoTime == [kind |-> "none", t |-> 0, off |-> 0]
BadTime == [kind |-> "bad", t |-> 0, off |-> 0]
Aware(t, off) == [kind |-> "aware", t |-> t, off |-> off]
Naive(t) == [kind |-> "naive", t |-> t, off |-> 0]

\* datetime.date() of a parsed timestamp: the calendar date its own wall clock shows
DateOf(ts) == (ts.t + ts.off) \div MinutesPerDay

\* datetime.isoformat() of an aware datetime in the user's timezone
isoformat(t) == Aware(t, 0)

(***************************************************************************)
(* Strings: substring test and lower-casing as Python computes them        *)
(***************************************************************************)
LowerChar(c) ==
    CASE c = "A" -> "a" [] c = "B" -> "b" [] c = "C" -> "c" [] c = "D" -> "d"
      [] c = "E" -> "e" [] c = "F" -> "f" [] c = "G" -> "g" [] c = "H" -> "h"
      [] c = "I" -> "i" [] c = "J" -> "j" [] c = "K" -> "k" [] c = "L" -> "l"
      [] c = "M" -> "m" [] c = "N" -> "n" [] c = "O" -> "o" [] c = "P" -> "p"
      [] c = "Q" -> "q" [] c = "R" -> "r" [] c = "S" -> "s" [] c = "T" -> "t"
      [] c = "U" -> "u" [] c = "V" -> "v" [] c = "W" -> "w" [] c = "X" -> "x"
      [] c = "Y" -> "y" [] c = "Z" -> "z"
      [] OTHER -> c

RECURSIVE lower(_)
lower(s) ==
    IF Len(s) = 0 THEN ""
    ELSE LowerChar(SubSeq(s, 1, 1)) \o lower(SubSeq(s, 2, Len(s)))

\* Python's  k in s  for strings
Contains(k, s) ==
    \E i \in 1..(Len(s) - Len(k) + 1) : SubSeq(s, i, i + Len(k) - 1) = k

(***************************************************************************)
(* Anchor registry and resolver                                            *)
(***************************************************************************)
ANCHOR_TIME_MAP == <<
    [key |-> "Morning Coffee", hour |-> 8,  minute |-> 0],
    [key |-> "Morning",        hour |-> 8,  minute |-> 0],
    [key |-> "Start Laptop",   hour |-> 9,  minute |-> 0],
    [key |-> "Mid-Morning",    hour |-> 10, minute |-> 30],
    [key |-> "Before Lunch",   hour |-> 11, minute |-> 30],
    [key |-> "Lunch Break",    hour |-> 12, minute |-> 30],
    [key |-> "After Lunch",    hour |-> 13, minute |-> 30],
    [key |-> "Afternoon",      hour |-> 14, minute |-> 0],
    [key |-> "Mid-Afternoon",  hour |-> 15, minute |-> 30],
    [key |-> "End of Day",     hour |-> 17, minute |-> 0],
    [key |-> "Evening",        hour |-> 18, minute |-> 0],
    [key |-> "After Dinner",   hour |-> 19, minute |-> 30],
    [key |-> "Before Bed",     hour |-> 21, minute |-> 0],
    [key |-> "Night",          hour |-> 21, minute |-> 0] >>

\* the anchor names the model feeds to the engine
AnchorNames == {"Morning Coffee", "Mid-Morning", "After Lunch", "Mid-Afternoon",
                "End of Day", "Evening", "After Dinner", "morning coffee time",
                "Random Nonsense", "Coffee after lunch", "Dinner and Lunch",
                "BEFORE BED"}

\* the registry scan comparing the texts as they are, without lower()
time_config_exact_case(anchor) ==
    LET matches == {i \in 1..Len(ANCHOR_TIME_MAP) :
                       Contains(ANCHOR_TIME_MAP[i].key, anchor)}
    IN  IF matches = {} THEN [hour |-> 14, minute |-> 0]
        ELSE LET first == CHOOSE i \in matches : \A j \in matches : i <= j
             IN  [hour |-> ANCHOR_TIME_MAP[first].hour,
                  minute |-> ANCHOR_TIME_MAP[first].minute]

\* the {hour, minute} the registry scan of anchor_to_timestamp selects
time_config(anchor) ==
    LET matches == {i \in 1..Len(ANCHOR_TIME_MAP) :
                       Contains(lower(ANCHOR_TIME_MAP[i].key), lower(anchor))}
    IN  IF matches = {} THEN [hour |-> 14, minute |-> 0]
        ELSE LET first == CHOOSE i \in matches : \A j \in matches : i <= j
             IN  [hour |-> ANCHOR_TIME_MAP[first].hour,
                  minute |-> ANCHOR_TIME_MAP[first].minute]

\* the scan is a function of the name only: tabulated once
TimeConfigOf == [a \in AnchorNames |-> time_config(a)]

anchor_to_timestamp(anchor, base_date) ==
    (base_date \div MinutesPerDay) * MinutesPerDay
        + HM(TimeConfigOf[anchor].hour, TimeConfigOf[anchor].minute)

\* a datetime with its fields; day counts calendar days as the minutes do
DateTime(day, hour, minute, second, microsecond) ==
    [day |-> day, hour |-> hour, minute |-> minute, second |-> second,
     microsecond |-> microsecond]

\* base_date = None
NoBaseDate == DateTime(0 - 1, 0, 0, 0, 0)

\* lines 178-200 on a datetime with seconds: base_date (now when it is None) with
\* hour and minute from the registry scan, second and microsecond zero
anchor_to_datetime(anchor, base_date, clock) ==
    LET base == IF base_date = NoBaseDate THEN clock ELSE base_date
    IN  [base EXCEPT !.hour = time_config(anchor).hour,
                     !.minute = time_config(anchor).minute,
                     !.second = 0,
                     !.microsecond = 0]

NoResolved ==
    [called |-> FALSE, anchor |-> None, base_date |-> NoBaseDate, clock |-> NoBaseDate,
     result |-> NoBaseDate]

(***************************************************************************)
(* Task rows                                                               *)
(***************************************************************************)
Row(u, st, at, est, anchor) ==
    [user_id |-> u, status |-> st, scheduled_at |-> at, estimated_minutes |-> est,
     assigned_anchor |-> anchor, scheduled_text |-> anchor, was_rescheduled |-> FALSE]

\* supabase.table("tasks").select(...).eq("user_id", user_id): ids in table order
AllIds == [i \in 1..NumTasks |-> i]

\* the query without its user filter
rows_of_any_user(store, user_id) == AllIds

\* the query with the status filter of the availability calculator (line 73)
rows_of_user_not_completed(store, user_id) ==
    SelectSeq(AllIds, LAMBDA i : /\ i \in DOMAIN store
                                 /\ store[i].user_id = user_id
                                 /\ store[i].status # "completed")

rows_of_user(store, user_id) ==
    SelectSeq(AllIds, LAMBDA i : i \in DOMAIN store /\ store[i].user_id = user_id)

\* clock is datetime.now(tz) with its seconds, read when base_date is None
AnchorToTimestamp(anchor, base_date, clock) ==
    /\ resolved' = [called |-> TRUE, anchor |-> anchor, base_date |-> base_date,
                    clock |-> clock,
                    result |-> anchor_to_datetime(anchor, base_date, clock)]
    /\ calls' = calls + 1
    /\ UNCHANGED <<tasks, calendar, supabase, now, availability, slot, resched, sweep,
                   prev_sweep, procs>>

(***************************************************************************)
(* get_available_anchors                                                   *)
(***************************************************************************)
\* lines 67-76: the user's rows with status <> "completed", [] when the client
\* is None or the query raises
goally_tasks(store, user_id, store_raises) ==
    IF ~supabase \/ store_raises THEN <<>>
    ELSE SelectSeq(AllIds, LAMBDA i : /\ store[i].user_id = user_id
                                      /\ store[i].status # "completed")

\* lines 78-89: a row becomes an interval unless scheduled_at is falsy, fromisoformat
\* raises ValueError, or timedelta(minutes=None) raises TypeError
has_interval(row) ==
    /\ row.scheduled_at.kind \in {"aware", "naive"}
    /\ row.estimated_minutes # NoMinutes

interval_of(row) ==
    [start |-> row.scheduled_at,
     end   |-> [row.scheduled_at EXCEPT !.t = @ + row.estimated_minutes]]

goally_intervals(store, ids) ==
    {interval_of(store[ids[k]]) : k \in {j \in 1..Len(ids) : has_interval(store[ids[j]])}}

\* the calendar events used although the fetch raised
all_busy_despite_failure(store, events, user_id, cal_raises, store_raises) ==
    events \cup goally_intervals(store, goally_tasks(store, user_id, store_raises))

\* lines 60-65 and 92: calendar_events + goally_intervals
all_busy(store, events, user_id, cal_raises, store_raises) ==
    (IF cal_raises THEN {} ELSE events)
        \cup goally_intervals(store, goally_tasks(store, user_id, store_raises))

\* the day filter reading the date of the interval's end
days_busy_by_end_date(busy, current_date) ==
    {ev \in busy : DateOf(ev.end) = current_date}

\* the day filter left out
days_busy_unfiltered(busy, current_date) == busy

\* lines 100-107
days_busy(busy, current_date) == {ev \in busy : DateOf(ev.start) = current_date}

\* only the anchor's end is tested against the busy interval
overlaps_end_inside(anchor_dt, anchor_end, ev) ==
    ev.start.t < anchor_end /\ anchor_end <= ev.end.t

\* only the anchor's start is tested against the busy interval
overlaps_start_only(anchor_dt, anchor_end, ev) ==
    ev.start.t <= anchor_dt /\ anchor_dt < ev.end.t

\* the comparisons of line 129 made non-strict
overlaps_nonstrict(anchor_dt, anchor_end, ev) ==
    anchor_dt <= ev.end.t /\ anchor_end >= ev.start.t

\* line 129; a naive bound was given the user's timezone (lines 124-127), which
\* leaves its reading in minutes unchanged
overlaps(anchor_dt, anchor_end, ev) ==
    anchor_dt < ev.end.t /\ anchor_end > ev.start.t

\* lines 110-131
is_blocked(anchor_name, current_date, task_duration_minutes, busy) ==
    LET anchor_dt  == anchor_to_timestamp(anchor_name, current_date * MinutesPerDay)
        anchor_end == anchor_dt + task_duration_minutes
    IN  \E ev \in days_busy(busy, current_date) : overlaps(anchor_dt, anchor_end, ev)

\* the day offsets counted from 1
availability_map_from_tomorrow(busy, anchors, days_ahead, task_duration_minutes, start_date) ==
    [d \in (start_date + 1)..(start_date + days_ahead) |->
        SelectSeq(anchors, LAMBDA a : ~is_blocked(a, d, task_duration_minutes, busy))]

\* lines 94-138: the availability map, keyed by calendar day
availability_map(busy, anchors, days_ahead, task_duration_minutes, start_date) ==
    [d \in start_date..(start_date + days_ahead - 1) |->
        SelectSeq(anchors, LAMBDA a : ~is_blocked(a, d, task_duration_minutes, busy))]

NoAvailability ==
    [called |-> FALSE, user_id |-> "u1", anchors |-> <<>>, days_ahead |-> 0,
     task_duration_minutes |-> 0, cal_raises |-> FALSE, store_raises |-> FALSE,
     result |-> <<>>]

GetAvailableAnchors(user_id, anchors, days_ahead, task_duration_minutes, cal_raises, store_raises) ==
    /\ availability' =
          [called |-> TRUE, user_id |-> user_id, anchors |-> anchors,
           days_ahead |-> days_ahead, task_duration_minutes |-> task_duration_minutes,
           cal_raises |-> cal_raises, store_raises |-> store_raises,
           result |-> availability_map(
                         all_busy(tasks, calendar, user_id, cal_raises, store_raises),
                         anchors, days_ahead, task_duration_minutes,
                         now \div MinutesPerDay)]
    /\ calls' = calls + 1
    /\ UNCHANGED <<tasks, calendar, supabase, resolved, now, slot, resched, sweep, prev_sweep,
                   procs>>

(***************************************************************************)
(* find_next_available_slot                                                *)
(***************************************************************************)
SearchDays == 7
DefaultMinutes == 15
GraceMinutes == 60

AnyWord(words, text) == \E w \in words : Contains(w, text)

\* the evening words tested before the afternoon ones
time_slots_evening_first(anchor_preference) ==
    LET anchor_lower == lower(anchor_preference)
    IN  IF AnyWord({"morning", "breakfast", "coffee"}, anchor_lower)
            THEN <<"Morning Coffee", "Mid-Morning">>
        ELSE IF AnyWord({"evening", "dinner", "night", "bed"}, anchor_lower)
            THEN <<"End of Day", "Evening", "After Dinner">>
        ELSE IF AnyWord({"lunch", "afternoon"}, anchor_lower)
            THEN <<"After Lunch", "Mid-Afternoon">>
        ELSE <<"After Lunch", "Mid-Afternoon", "End of Day">>

\* lines 238-260: the candidate anchors of the preference's time of day
time_slots(anchor_preference) ==
    LET anchor_lower == lower(anchor_preference)
    IN  IF AnyWord({"morning", "breakfast", "coffee"}, anchor_lower)
            THEN <<"Morning Coffee", "Mid-Morning">>
        ELSE IF AnyWord({"lunch", "afternoon"}, anchor_lower)
            THEN <<"After Lunch", "Mid-Afternoon">>
        ELSE IF AnyWord({"evening", "dinner", "night", "bed"}, anchor_lower)
            THEN <<"End of Day", "Evening", "After Dinner">>
        ELSE <<"After Lunch", "Mid-Afternoon", "End of Day">>

TimeSlotsOf == [a \in AnchorNames |-> time_slots(a)]

\* the search started at the midnight of today
search_date_today(clock) == (clock \div MinutesPerDay) * MinutesPerDay

\* line 245: midnight of tomorrow
search_date(clock) == ((clock + MinutesPerDay) \div MinutesPerDay) * MinutesPerDay

\* the k-th (day, slot) pair the two nested loops of lines 248-262 visit
candidate(anchor_preference, clock, k) ==
    LET n    == Len(TimeSlotsOf[anchor_preference])
        name == TimeSlotsOf[anchor_preference][((k - 1) % n) + 1]
        day  == search_date(clock) + ((k - 1) \div n) * MinutesPerDay
    IN  [slot_name |-> name, slot_time |-> anchor_to_timestamp(name, day)]

NumCandidates(anchor_preference) == SearchDays * Len(TimeSlotsOf[anchor_preference])

Abs(x) == IF x < 0 THEN 0 - x ELSE x

\* the buffer of line 273 made of the new task's minutes only
row_check_own_minutes(row, slot_time, estimated_minutes) ==
    IF row.scheduled_at.kind = "none" THEN "skip"
    ELSE IF row.scheduled_at.kind # "aware" THEN "raise"
    ELSE IF row.estimated_minutes = NoMinutes \/ estimated_minutes = NoMinutes THEN "raise"
    ELSE IF Abs(row.scheduled_at.t - slot_time) < estimated_minutes THEN "conflict"
    ELSE "pass"

\* lines 268-275 for one row: "skip" (falsy scheduled_at), "raise" (fromisoformat
\* rejects the string, a naive datetime is subtracted from an aware one, or a
\* None duration is added), "conflict" or "pass"
row_check(row, slot_time, estimated_minutes) ==
    IF row.scheduled_at.kind = "none" THEN "skip"
    ELSE IF row.scheduled_at.kind # "aware" THEN "raise"
    ELSE IF row.estimated_minutes = NoMinutes \/ estimated_minutes = NoMinutes THEN "raise"
    ELSE IF Abs(row.scheduled_at.t - slot_time) < row.estimated_minutes + estimated_minutes
         THEN "conflict"
    ELSE "pass"

\* lines 266-275: the rows are visited in order until one conflicts or raises
slot_check(store, ids, slot_time, estimated_minutes) ==
    LET stops == {j \in 1..Len(ids) :
                     row_check(store[ids[j]], slot_time, estimated_minutes)
                         \in {"raise", "conflict"}}
    IN  IF stops = {} THEN "free"
        ELSE LET j == CHOOSE i \in stops : \A h \in stops : i <= h
             IN  row_check(store[ids[j]], slot_time, estimated_minutes)

\* lines 224-297
find_next_available_slot(store, clock, user_id, anchor_preference, estimated_minutes, query_raises) ==
    IF ~supabase THEN
        [scheduled_at |-> clock + MinutesPerDay, scheduled_text |-> anchor_preference,
         via |-> "no_client"]
    ELSE IF query_raises \/ anchor_preference = None THEN
        [scheduled_at |-> clock + MinutesPerDay, scheduled_text |-> anchor_preference,
         via |-> "except"]
    ELSE
        LET existing_tasks == rows_of_user(store, user_id)
            check(k) == slot_check(store, existing_tasks,
                                   candidate(anchor_preference, clock, k).slot_time,
                                   estimated_minutes)
            ends == {k \in 1..NumCandidates(anchor_preference) : check(k) # "conflict"}
        IN  IF ends = {} THEN
                [scheduled_at |-> anchor_to_timestamp(anchor_preference, search_date(clock)),
                 scheduled_text |-> anchor_preference, via |-> "fallback"]
            ELSE LET k == CHOOSE i \in ends : \A h \in ends : i <= h
                 IN  IF check(k) = "raise" THEN
                         [scheduled_at |-> clock + MinutesPerDay,
                          scheduled_text |-> anchor_preference, via |-> "except"]
                     ELSE
                         [scheduled_at |-> candidate(anchor_preference, clock, k).slot_time,
                          scheduled_text |-> candidate(anchor_preference, clock, k).slot_name,
                          via |-> "search"]

NoSlot ==
    [called |-> FALSE, user_id |-> "u1", anchor_preference |-> None,
     estimated_minutes |-> 0, query_raises |-> FALSE,
     result |-> [scheduled_at |-> 0, scheduled_text |-> None, via |-> "none"]]

FindNextAvailableSlot(user_id, anchor_preference, estimated_minutes, query_raises) ==
    /\ slot' = [called |-> TRUE, user_id |-> user_id,
                anchor_preference |-> anchor_preference,
                estimated_minutes |-> estimated_minutes, query_raises |-> query_raises,
                result |-> find_next_available_slot(tasks, now, user_id, anchor_preference,
                                                    estimated_minutes, query_raises)]
    /\ calls' = calls + 1
    /\ UNCHANGED <<tasks, calendar, supabase, resolved, now, availability, resched, sweep,
                   prev_sweep, procs>>

(***************************************************************************)
(* reschedule_task                                                         *)
(***************************************************************************)
\* a call to the store may raise: the load of the row (line 324), the query
\* inside the slot finder (line 234) or the update (line 344)
Faults == {"none", "load", "find", "update"}

\* the update also putting the task back to pending
updated_row_marks_pending(row, new_slot) ==
    [row EXCEPT !.scheduled_at = isoformat(new_slot.scheduled_at),
                !.scheduled_text = new_slot.scheduled_text,
                !.was_rescheduled = TRUE,
                !.status = "pending"]

\* the update without the new scheduled_at
updated_row_keeps_time(row, new_slot) ==
    [row EXCEPT !.scheduled_text = new_slot.scheduled_text,
                !.was_rescheduled = TRUE]

\* the update writing the task's own anchor as scheduled_text
updated_row_anchor_text(row, new_slot) ==
    [row EXCEPT !.scheduled_at = isoformat(new_slot.scheduled_at),
                !.scheduled_text = row.assigned_anchor,
                !.was_rescheduled = TRUE]

\* lines 338-344: the row after the update
updated_row(row, new_slot) ==
    [row EXCEPT !.scheduled_at = isoformat(new_slot.scheduled_at),
                !.scheduled_text = new_slot.scheduled_text,
                !.was_rescheduled = TRUE]

\* what the audit sink (the Opik client of execution_tracker.py) does with a
\* trace: there is no client, the trace is stored, or the client raises
Sinks == {"none", "ok", "raises"}

\* line 352: original_date or "unknown"
Unknown == [kind |-> "unknown", t |-> 0, off |-> 0]

\* line 353: strftime("%Y-%m-%d %H:%M") of the slot: its wall clock to the minute
\* (the unit of time here), without the UTC offset
strftime(t) == Naive(t)

\* lines 347-355: the arguments handed to log_reschedule; written is the row's
\* scheduled_at in the store at the moment of the call
reschedule_event(store, task_id, task, new_slot, reason) ==
    [task_id |-> task_id,
     original_date |-> IF task.scheduled_at.kind = "none" THEN Unknown
                       ELSE task.scheduled_at,
     new_date |-> strftime(new_slot.scheduled_at),
     reason |-> reason,
     written |-> store[task_id].scheduled_at]

\* a sink whose failure reaches the caller
log_reschedule_propagates(sink, event) ==
    [raised |-> sink = "raises", traced |-> IF sink = "ok" THEN <<event>> ELSE <<>>]

\* execution_tracker.py lines 112-142: returns at once without a client, and
\* swallows whatever the client raises
log_reschedule(sink, event) ==
    [raised |-> FALSE, traced |-> IF sink = "ok" THEN <<event>> ELSE <<>>]

\* the update written and the event handed over, but False returned
reschedule_unconfirmed(store, task_id, task, new_slot, reason, sink) ==
    [store |-> store, success |-> FALSE, new_slot |-> new_slot,
     logged |-> <<reschedule_event(store, task_id, task, new_slot, reason)>>,
     traced |-> <<>>]

\* lines 344-362: the update has been written; the event is handed to the sink
\* and True is returned, or False from the except branch if the hand-off raised
reschedule_logged(store, task_id, task, new_slot, reason, sink) ==
    LET event == reschedule_event(store, task_id, task, new_slot, reason)
        log   == log_reschedule(sink, event)
    IN  [store |-> store, success |-> ~log.raised, new_slot |-> new_slot,
         logged |-> <<event>>, traced |-> log.traced]

\* lines 318-362: the store after the call, the value returned, the slot found,
\* the events handed to log_reschedule and the traces the sink stored
reschedule_task(store, clock, task_id, user_id, fault, reason, sink) ==
    LET none_found == [store |-> store, success |-> FALSE,
                       new_slot |-> NoSlot.result, logged |-> <<>>, traced |-> <<>>]
    IN  IF ~supabase \/ fault = "load" THEN none_found
        ELSE IF task_id \notin DOMAIN store THEN none_found
        ELSE IF store[task_id].user_id # user_id THEN none_found
        ELSE
            LET task     == store[task_id]
                new_slot == find_next_available_slot(store, clock, user_id,
                                task.assigned_anchor, task.estimated_minutes,
                                fault = "find")
            IN  IF fault = "update"
                    THEN [store |-> store, success |-> FALSE, new_slot |-> new_slot,
                          logged |-> <<>>, traced |-> <<>>]
                    ELSE reschedule_logged(
                             [store EXCEPT ![task_id] = updated_row(task, new_slot)],
                             task_id, task, new_slot, reason, sink)

NoSweep ==
    [called |-> FALSE, user_id |-> "u1", clock |-> 0, list_raises |-> FALSE,
     before |-> <<>>, invoked |-> {}, succeeded |-> {}, aborted |-> FALSE,
     result |-> <<>>, sink |-> "ok", slots |-> <<>>, logged |-> <<>>,
     visited |-> <<>>, faults |-> <<>>]

NoResched ==
    [called |-> FALSE, task_id |-> 0, user_id |-> "u1", fault |-> "none",
     success |-> FALSE, new_slot |-> NoSlot.result, reason |-> None, sink |-> "ok",
     logged |-> <<>>, traced |-> <<>>]

RescheduleTask(task_id, user_id, fault, reason, sink) ==
    \E r \in {reschedule_task(tasks, now, task_id, user_id, fault, reason, sink)} :
        /\ tasks' = r.store
        /\ resched' = [called |-> TRUE, task_id |-> task_id, user_id |-> user_id,
                       fault |-> fault, success |-> r.success, new_slot |-> r.new_slot,
                       reason |-> reason, sink |-> sink,
                       logged |-> r.logged, traced |-> r.traced]
        /\ sweep' = NoSweep
        /\ prev_sweep' = NoSweep
        /\ calls' = calls + 1
        /\ UNCHANGED <<calendar, supabase, resolved, now, availability, slot, procs>>

(***************************************************************************)
(* detect_and_reschedule_missed_tasks                                      *)
(***************************************************************************)
\* the overdue test with a grace period of two hours
missed_check_two_hours(row, clock) ==
    IF row.status = "completed" THEN "skip"
    ELSE IF row.scheduled_at.kind = "none" THEN "skip"
    ELSE IF row.scheduled_at.kind # "aware" THEN "raise"
    ELSE IF row.scheduled_at.t < clock - 2 * GraceMinutes THEN "overdue"
    ELSE "skip"

\* lines 392-401 for one loaded row: "skip", "raise" (fromisoformat rejects the
\* string, or a naive datetime is compared with the aware now) or "overdue"
missed_check(row, clock) ==
    IF row.status = "completed" THEN "skip"
    ELSE IF row.scheduled_at.kind = "none" THEN "skip"
    ELSE IF row.scheduled_at.kind # "aware" THEN "raise"
    ELSE IF row.scheduled_at.t < clock - GraceMinutes THEN "overdue"
    ELSE "skip"

\* lines 402-409: r is what reschedule_task returned for the overdue row id; the
\* id is appended to the list when the call returned true
sweep_collect(acc, id, r) ==
    [acc EXCEPT !.store = r.store,
                !.invoked = @ \cup {id},
                !.succeeded = IF r.success THEN @ \cup {id} ELSE @,
                !.result = IF r.success THEN Append(@, id) ELSE @,
                !.slots = IF r.success
                              THEN Append(@, [task_id |-> id, slot |-> r.new_slot])
                              ELSE @,
                !.logged = @ \o r.logged]

\* every reschedule of the sweep searching the store as it was loaded, its write
\* merged afterwards (a parallel fan-out)
sweep_row_parallel(acc, id, loaded, clock, user_id, faults, sink) ==
    LET c    == missed_check(loaded[id], clock)
        here == [acc EXCEPT !.visited = Append(@, id)]
    IN  IF acc.aborted THEN acc
        ELSE IF c = "skip" THEN here
        ELSE IF c = "raise" THEN [here EXCEPT !.aborted = TRUE, !.result = <<>>]
        ELSE \* the row written is the only one that differs from loaded
             LET r == reschedule_task(loaded, clock, id, user_id, faults[id],
                                      "auto_missed_deadline", sink)
             IN  sweep_collect(here, id,
                               [r EXCEPT !.store = [acc.store EXCEPT ![id] = r.store[id]]])

\* lines 390-409 for one loaded row: acc carries the store, the list collected
\* so far, the rows the loop has reached and what the run did; once a row has
\* raised, the loop is over
sweep_row(acc, id, loaded, clock, user_id, faults, sink) ==
    LET c    == missed_check(loaded[id], clock)
        here == [acc EXCEPT !.visited = Append(@, id)]
    IN  IF acc.aborted THEN acc
        ELSE IF c = "skip" THEN here
        ELSE IF c = "raise" THEN [here EXCEPT !.aborted = TRUE, !.result = <<>>]
        ELSE sweep_collect(here, id,
                 reschedule_task(acc.store, clock, id, user_id, faults[id],
                                 "auto_missed_deadline", sink))

\* lines 389-418: the loop over the loaded rows, in order
sweep_rows(ids, loaded, clock, user_id, faults, sink, start) ==
    LET after[k \in 0..Len(ids)] ==
            IF k = 0 THEN start
            ELSE sweep_row(after[k - 1], ids[k], loaded, clock, user_id, faults, sink)
    IN  after[Len(ids)]

\* slots holds the slot of each task rescheduled during the run, in the order of
\* the calls; logged the events handed to log_reschedule
detect_and_reschedule_missed_tasks(store, clock, user_id, list_raises, faults, sink) ==
    LET start == [store |-> store, invoked |-> {}, succeeded |-> {}, aborted |-> FALSE,
                  result |-> <<>>, slots |-> <<>>, logged |-> <<>>, visited |-> <<>>]
    IN  IF ~supabase \/ list_raises THEN start
        ELSE sweep_rows(rows_of_user(store, user_id), store, clock, user_id, faults,
                        sink, start)

DetectAndRescheduleMissedTasks(user_id, list_raises, faults, sink) ==
    \E r \in {detect_and_reschedule_missed_tasks(tasks, now, user_id, list_raises, faults, sink)} :
        /\ tasks' = r.store
        /\ sweep' = [called |-> TRUE, user_id |-> user_id, clock |-> now,
                     list_raises |-> list_raises, before |-> tasks,
                     invoked |-> r.invoked, succeeded |-> r.succeeded,
                     aborted |-> r.aborted, result |-> r.result, sink |-> sink,
                     slots |-> r.slots, logged |-> r.logged, visited |-> r.visited,
                     faults |-> faults]
        /\ prev_sweep' = sweep
        /\ resched' = NoResched
        /\ calls' = calls + 1
        /\ UNCHANGED <<calendar, supabase, resolved, now, availability, slot, procs>>

(***************************************************************************)
(* The coordinator and the sweeper one store call at a time: the calls of  *)
(* several requests, and the task routes of the API, interleave between    *)
(* the load, the slot search and the update                                *)
(***************************************************************************)
Procs == {"a", "b"}

\* a call not yet made: kind is "reschedule" (reschedule_task called directly) or
\* "sweep"; loaded and queue are the sweeper's task list and what is left of it,
\* rescheduled its result list; task, existing_tasks and new_slot are the locals
\* of reschedule_task and of the slot finder
NoProc ==
    [pc |-> "idle", kind |-> "none", user_id |-> "u1", clock |-> 0, loaded |-> <<>>,
     queue |-> <<>>, rescheduled |-> <<>>, task_id |-> 0, task |-> <<>>,
     existing_tasks |-> <<>>, new_slot |-> NoSlot.result, success |-> FALSE]

\* reschedule_task returns: to the loop of the sweeper (lines 402-409), which
\* appends the id on true and goes on with the next row, or to the caller
returned(self, success) ==
    IF self.kind = "sweep"
        THEN [self EXCEPT !.success = success,
                          !.rescheduled = IF success THEN Append(@, self.task_id) ELSE @,
                          !.queue = Tail(@),
                          !.pc = "scan"]
        ELSE [self EXCEPT !.success = success, !.pc = "done"]

\* the loop handing on every overdue row, whatever its status
scan_next_any_status(self) ==
    IF self.queue = <<>> THEN [self EXCEPT !.pc = "done"]
    ELSE LET id == Head(self.queue)
             c  == missed_check([self.loaded[id] EXCEPT !.status = "pending"], self.clock)
         IN  IF c = "skip" THEN [self EXCEPT !.queue = Tail(@)]
             ELSE IF c = "raise" THEN [self EXCEPT !.rescheduled = <<>>, !.pc = "done"]
             ELSE [self EXCEPT !.task_id = id, !.pc = "load"]

\* lines 390-401 for the next loaded row
scan_next(self) ==
    IF self.queue = <<>> THEN [self EXCEPT !.pc = "done"]
    ELSE LET id == Head(self.queue)
             c  == missed_check(self.loaded[id], self.clock)
         IN  IF c = "skip" THEN [self EXCEPT !.queue = Tail(@)]
             ELSE IF c = "raise" THEN [self EXCEPT !.rescheduled = <<>>, !.pc = "done"]
             ELSE [self EXCEPT !.task_id = id, !.pc = "load"]

\* lines 324-332
load_task(self, store) ==
    IF self.task_id \notin DOMAIN store THEN returned(self, FALSE)
    ELSE IF store[self.task_id].user_id # self.user_id THEN returned(self, FALSE)
    ELSE [self EXCEPT !.task = store[self.task_id], !.pc = "find"]

\* line 234: the rows the query of the slot finder returns
query_existing_tasks(store, user_id) ==
    [i \in {j \in DOMAIN store : store[j].user_id = user_id} |-> store[i]]

\* the update made only when no other task of the owner holds the slot
update_task_if_free(store, task_id, new_slot) ==
    IF task_id \notin DOMAIN store THEN store
    ELSE IF \E j \in DOMAIN store \ {task_id} :
                /\ store[j].user_id = store[task_id].user_id
                /\ store[j].scheduled_at = isoformat(new_slot.scheduled_at)
         THEN store
    ELSE [store EXCEPT ![task_id] = updated_row(store[task_id], new_slot)]

\* lines 338-344: update ... eq("id", task_id); no row matches a deleted task
update_task(store, task_id, new_slot) ==
    IF task_id \notin DOMAIN store THEN store
    ELSE [store EXCEPT ![task_id] = updated_row(store[task_id], new_slot)]

\* the store and now are unchanged by a step that only reads
ReadOnlyStep(p, after) ==
    /\ procs' = [procs EXCEPT ![p] = after]
    /\ UNCHANGED <<tasks, calendar, supabase, now, availability, slot, resched, sweep,
                   prev_sweep, resolved, calls>>

\* reschedule_task is called: line 318
BeginReschedule(p, task_id, user_id) ==
    /\ procs[p].pc = "idle"
    /\ procs' = [procs EXCEPT ![p] =
                    [NoProc EXCEPT !.kind = "reschedule", !.user_id = user_id,
                                   !.task_id = task_id, !.clock = now,
                                   !.pc = IF supabase THEN "load" ELSE "done"]]
    /\ calls' = calls + 1
    /\ UNCHANGED <<tasks, calendar, supabase, now, availability, slot, resched, sweep,
                   prev_sweep, resolved>>

\* detect_and_reschedule_missed_tasks is called: lines 379-389
BeginSweep(p, user_id) ==
    /\ procs[p].pc = "idle"
    /\ procs' = [procs EXCEPT ![p] =
                    IF ~supabase
                        THEN [NoProc EXCEPT !.kind = "sweep", !.user_id = user_id,
                                            !.clock = now, !.pc = "done"]
                        ELSE [NoProc EXCEPT !.kind = "sweep", !.user_id = user_id,
                                            !.clock = now, !.loaded = tasks,
                                            !.queue = rows_of_user(tasks, user_id),
                                            !.pc = "scan"]]
    /\ calls' = calls + 1
    /\ UNCHANGED <<tasks, calendar, supabase, now, availability, slot, resched, sweep,
                   prev_sweep, resolved>>

SweepScan(p) ==
    /\ procs[p].pc = "scan"
    /\ ReadOnlyStep(p, scan_next(procs[p]))

LoadTask(p) ==
    /\ procs[p].pc = "load"
    /\ ReadOnlyStep(p, load_task(procs[p], tasks))

\* line 335: the slot finder runs on the store as it is now
FindSlot(p) ==
    /\ procs[p].pc = "find"
    /\ ReadOnlyStep(p, [procs[p] EXCEPT
                            !.existing_tasks = query_existing_tasks(tasks, procs[p].user_id),
                            !.new_slot = find_next_available_slot(tasks, now,
                                             procs[p].user_id,
                                             procs[p].task.assigned_anchor,
                                             procs[p].task.estimated_minutes, FALSE),
                            !.pc = "update"])

\* lines 338-358: the update, the audit event, and True returned
UpdateTask(p) ==
    /\ procs[p].pc = "update"
    /\ tasks' = update_task(tasks, procs[p].task_id, procs[p].new_slot)
    /\ procs' = [procs EXCEPT ![p] = returned(procs[p], TRUE)]
    /\ UNCHANGED <<calendar, supabase, now, availability, slot, resched, sweep,
                   prev_sweep, resolved, calls>>

\* PUT /tasks/{task_id} with status "completed"
CompleteTask(i) ==
    /\ supabase
    /\ i \in DOMAIN tasks
    /\ tasks[i].status # "completed"
    /\ tasks' = [tasks EXCEPT ![i].status = "completed"]
    /\ calls' = calls + 1
    /\ UNCHANGED <<calendar, supabase, now, availability, slot, resched, sweep,
                   prev_sweep, resolved, procs>>

\* DELETE /tasks/{task_id}
DeleteTask(i) ==
    /\ supabase
    /\ i \in DOMAIN tasks
    /\ tasks' = [j \in DOMAIN tasks \ {i} |-> tasks[j]]
    /\ calls' = calls + 1
    /\ UNCHANGED <<calendar, supabase, now, availability, slot, resched, sweep,
                   prev_sweep, resolved, procs>>

(***************************************************************************)
(* Environment: the clock                                                  *)
(***************************************************************************)
StartNow == At(1, 7, 0)
Today == StartNow \div MinutesPerDay

\* the clock readings the model samples
NowReadings == {StartNow, StartNow + 1} \cup {StartNow + k * MinutesPerDay : k \in 1..MaxTicks}

Tick ==
    /\ \E n \in NowReadings : n > now /\ now' = n
    /\ sweep' = NoSweep
    /\ prev_sweep' = NoSweep
    /\ UNCHANGED <<tasks, calendar, supabase, resolved, availability, slot, resched, calls,
                   procs>>

(***************************************************************************)
(* Specification of the availability calculator                            *)
(***************************************************************************)
Ev(s, e) == [start |-> s, end |-> e]

\* events the calendar source may return
CandidateEvents == {
    Ev(Aware(At(Today, 7, 30), 0),  Aware(At(Today, 9, 0), 0)),
    Ev(Aware(At(Today, 7, 0), 0),   Aware(At(Today, 8, 0), 0)),
    Ev(Aware(At(Today, 8, 20), 0),  Aware(At(Today, 9, 0), 0)),
    Ev(Aware(At(Today, 8, 15), 0),  Aware(At(Today, 8, 45), 0)),
    Ev(Aware(At(Today, 7, 45), 0),  Aware(At(Today, 8, 10), 0)),
    Ev(Aware(At(Today, 0, 0), 0),   Aware(At(Today, 23, 59), 0)),
    Ev(Aware(At(Today + 1, 13, 0), 0), Aware(At(Today + 1, 14, 0), 0)),
    Ev(Aware(At(Today, 16, 45), 0), Aware(At(Today + 1, 9, 0), 0)),
    Ev(Aware(At(Today, 16, 50), UtcOffset), Aware(At(Today, 17, 30), UtcOffset)),
    Ev(Naive(At(Today + 1, 0, 0)),  Naive(At(Today + 2, 0, 0))) }

AnchorLists == { <<"Morning Coffee", "After Lunch", "End of Day">>,
                 <<"End of Day", "Morning Coffee">> }

Durations == {5, 20}

AvailRows(i) ==
    IF i = 1 THEN
        { Row("u1", "pending",   Aware(At(Today, 13, 30), 0), 15, "After Lunch"),
          Row("u1", "completed", Aware(At(Today, 13, 30), 0), 15, "After Lunch"),
          Row("u1", "pending",   Aware(At(Today, 16, 50), UtcOffset), 15, "End of Day"),
          Row("u1", "pending",   Aware(At(Today, 13, 30), 0), NoMinutes, "After Lunch"),
          Row("u1", "pending",   BadTime, 15, "After Lunch") }
    ELSE IF i = 2 THEN
        { Row("u1", "pending", NoTime, 15, "Morning Coffee"),
          Row("u1", "in_progress", Naive(At(Today + 1, 7, 50)), 30, "Morning Coffee") }
    ELSE
        { Row("u2", "pending", Aware(At(Today, 8, 0), 0), 15, "Morning Coffee") }

NoCall ==
    /\ availability = NoAvailability
    /\ slot = NoSlot
    /\ resched = NoResched
    /\ sweep = NoSweep
    /\ prev_sweep = NoSweep
    /\ resolved = NoResolved
    /\ calls = 0
    /\ procs = [p \in Procs |-> NoProc]

AvailInit ==
    /\ now = StartNow
    /\ supabase \in BOOLEAN
    /\ calendar \in {S \in SUBSET CandidateEvents : Cardinality(S) <= MaxEvents}
    /\ tasks \in {f \in [TaskIds -> UNION {AvailRows(i) : i \in TaskIds}] :
                     \A i \in TaskIds : f[i] \in AvailRows(i)}
    /\ NoCall

\* the calculator changes nothing it reads: one call per behaviour shows all it
\* returns for the inputs drawn
AvailNext ==
    /\ calls = 0
    /\ \E user_id \in Users, anchors \in AnchorLists, days_ahead \in 0..MaxDaysAhead,
          task_duration_minutes \in Durations, cal_raises \in BOOLEAN,
          store_raises \in BOOLEAN :
           GetAvailableAnchors(user_id, anchors, days_ahead, task_duration_minutes,
                               cal_raises, store_raises)

AvailSpec == AvailInit /\ [][AvailNext]_vars

(***************************************************************************)
(* Properties of the availability calculator (checked under AvailSpec,     *)
(* where the clock, the calendar and the store do not change after the     *)
(* call)                                                                   *)
(***************************************************************************)
AvDays == Today..(Today + availability.days_ahead - 1)
AvAnchors == {availability.anchors[i] : i \in 1..Len(availability.anchors)}
AvDuration == availability.task_duration_minutes

\* the anchor is in the list the call returned for the day
Listed(d, a) ==
    \E i \in 1..Len(availability.result[d]) : availability.result[d][i] = a

\* the anchor's window [a, a+d) on a day
WindowStart(d, a) == anchor_to_timestamp(a, d * MinutesPerDay)
WindowEnd(d, a) == WindowStart(d, a) + AvDuration

\* the busy intervals the call aggregated
Aggregated ==
    all_busy(tasks, calendar, availability.user_id, availability.cal_raises,
             availability.store_raises)

HalfOpenOverlap(d, a, ev) == WindowStart(d, a) < ev.end.t /\ WindowEnd(d, a) > ev.start.t

\* C1 as stated: an anchor is left out of a day's list iff some aggregated busy
\* interval [b, e) satisfies a < e and a+d > b.
C1_AnyIntervalBlocks ==
    availability.called =>
        \A d \in AvDays : \A a \in AvAnchors :
            ~Listed(d, a) <=> \E ev \in Aggregated : HalfOpenOverlap(d, a, ev)

\* C1 amended: an anchor is left out of a day's list iff some aggregated busy
\* interval whose start date (the calendar date its own timestamp shows) is that
\* day satisfies a < e and a+d > b.
C1_SameDayIntervalBlocks ==
    availability.called =>
        \A d \in AvDays : \A a \in AvAnchors :
            ~Listed(d, a) <=>
                \E ev \in Aggregated : DateOf(ev.start) = d /\ HalfOpenOverlap(d, a, ev)

\* a call that left one anchor out of a day's list and kept another
C1_Witness ==
    /\ availability.called
    /\ \E d \in AvDays : \E a, b \in AvAnchors :
          /\ ~Listed(d, a)
          /\ Listed(d, b)
          /\ \E ev \in Aggregated : DateOf(ev.start) = d /\ HalfOpenOverlap(d, a, ev)

Adjacent(d, a, ev) == ev.end.t = WindowStart(d, a) \/ ev.start.t = WindowEnd(d, a)

\* C2: a busy interval that ends exactly at the anchor's start, or starts exactly
\* at the anchor's end, does not block the anchor: the anchor is listed exactly
\* when it would be listed without that interval.
C2_BackToBackPermitted ==
    availability.called =>
        \A d \in AvDays : \A a \in AvAnchors : \A ev \in Aggregated :
            Adjacent(d, a, ev) =>
                (Listed(d, a) <=> ~is_blocked(a, d, AvDuration, Aggregated \ {ev}))

\* a call with a same-day interval ending exactly at a listed anchor's start, and
\* one with a same-day interval starting exactly at a listed anchor's end
C2_Witness ==
    /\ availability.called
    /\ \E d \in AvDays : \E a \in AvAnchors : \E ev \in Aggregated :
          /\ DateOf(ev.start) = d
          /\ ev.start.t = WindowEnd(d, a)
          /\ Listed(d, a)

C2_WitnessEndsAtStart ==
    /\ availability.called
    /\ \E d \in AvDays : \E a \in AvAnchors : \E ev \in Aggregated :
          /\ DateOf(ev.start) = d
          /\ ev.end.t = WindowStart(d, a)
          /\ Listed(d, a)

AvailabilityWithout(ev) ==
    availability_map(Aggregated \ {ev}, availability.anchors, availability.days_ahead,
                     AvDuration, Today)

\* C3: a busy interval whose start date is day N changes the list of day N only;
\* the list of every other day of the horizon is the one computed without it.
C3_MultiDayIsolation ==
    availability.called =>
        \A ev \in Aggregated : \A d \in AvDays :
            d # DateOf(ev.start) => availability.result[d] = AvailabilityWithout(ev)[d]

\* a two-day call where an interval changes the list of its own day and overlaps
\* an anchor window of another day of the horizon
C3_Witness ==
    /\ availability.called
    /\ \E ev \in Aggregated : \E d, other \in AvDays :
          /\ d = DateOf(ev.start)
          /\ other # d
          /\ availability.result[d] # AvailabilityWithout(ev)[d]
          /\ \E a \in AvAnchors : HalfOpenOverlap(other, a, ev)

TaskIntervals ==
    goally_intervals(tasks, goally_tasks(tasks, availability.user_id,
                                         availability.store_raises))

BlockedBy(d, a, busy) ==
    \E ev \in busy : DateOf(ev.start) = d /\ HalfOpenOverlap(d, a, ev)

\* C4: when the calendar fetch raises, the map is the one the internal tasks alone
\* give; when the task query raises (or there is no client), the one the calendar
\* alone gives; when the calendar fetch raises and no internal task overlaps a
\* requested anchor, every day's list is the whole requested list.
C4_GracefulDegradation ==
    availability.called =>
        /\ availability.cal_raises =>
              \A d \in AvDays : \A a \in AvAnchors :
                  Listed(d, a) <=> ~BlockedBy(d, a, TaskIntervals)
        /\ (availability.store_raises \/ ~supabase) /\ ~availability.cal_raises =>
              \A d \in AvDays : \A a \in AvAnchors :
                  Listed(d, a) <=> ~BlockedBy(d, a, calendar)
        /\ (availability.store_raises \/ ~supabase) /\ availability.cal_raises =>
              \A d \in AvDays : availability.result[d] = availability.anchors
        /\ /\ availability.cal_raises
           /\ \A d \in AvDays : \A a \in AvAnchors : ~BlockedBy(d, a, TaskIntervals)
           => \A d \in AvDays : availability.result[d] = availability.anchors

\* a call whose calendar fetch raised while the calendar held an event that would
\* have blocked an anchor, and which lists that anchor
C4_Witness ==
    /\ availability.called
    /\ availability.cal_raises
    /\ \E d \in AvDays : \E a \in AvAnchors :
          /\ BlockedBy(d, a, calendar)
          /\ Listed(d, a)

\* a call whose task query raised while a task would have blocked an anchor
C4_WitnessStoreRaises ==
    /\ availability.called
    /\ supabase
    /\ availability.store_raises
    /\ \E d \in AvDays : \E a \in AvAnchors :
          /\ BlockedBy(d, a, goally_intervals(tasks,
                                goally_tasks(tasks, availability.user_id, FALSE)))
          /\ Listed(d, a)

\* the longest task duration the properties probe
ProbeMinutes == 60

\* the anchor would be listed for the day had the call asked for dur minutes
ListedFor(d, a, dur) == ~is_blocked(a, d, dur, Aggregated)

\* C13: with the busy intervals fixed, an anchor available on a day for the
\* duration asked is available on that day for every shorter duration, and an
\* anchor blocked for the duration asked is blocked for every longer one.
C13_DurationMonotone ==
    availability.called =>
        \A d \in AvDays : \A a \in AvAnchors :
            /\ Listed(d, a) => \A dur \in 0..AvDuration : ListedFor(d, a, dur)
            /\ ~Listed(d, a) => \A dur \in AvDuration..ProbeMinutes : ~ListedFor(d, a, dur)

\* busy [8:15, 8:45): Morning Coffee is listed by a call asking for 5 minutes and
\* would not be for 20
C13_Witness ==
    /\ availability.called
    /\ AvDuration = 5
    /\ Ev(Aware(At(Today, 8, 15), 0), Aware(At(Today, 8, 45), 0)) \in Aggregated
    /\ Today \in AvDays
    /\ "Morning Coffee" \in AvAnchors
    /\ Listed(Today, "Morning Coffee")
    /\ ~ListedFor(Today, "Morning Coffee", 20)

\* the interval spans calendar day N: from its midnight to its last minute or
\* the next midnight
FullDay(ev, N) ==
    /\ ev.start.t = At(N, 0, 0)
    /\ ev.end.t >= At(N, 23, 59)
    /\ ev.end.t <= At(N + 1, 0, 0)

\* C14: a busy interval spanning an entire calendar day of the horizon leaves that
\* day's list empty, and every other day's list is the one computed without it.
C14_FullDayBlock ==
    availability.called =>
        \A ev \in Aggregated : \A N \in AvDays :
            FullDay(ev, N) =>
                /\ availability.result[N] = <<>>
                /\ \A d \in AvDays \ {N} :
                      availability.result[d] = AvailabilityWithout(ev)[d]

\* a two-day call with the all-day event of tomorrow (date-only start and end, as
\* the calendar gives them): tomorrow's list is empty, today's is the whole list
C14_Witness ==
    /\ availability.called
    /\ availability.days_ahead = 2
    /\ availability.anchors # <<>>
    /\ \E ev \in Aggregated :
          /\ FullDay(ev, Today + 1)
          /\ ev.start.kind = "naive"
    /\ availability.result[Today + 1] = <<>>
    /\ availability.result[Today] = availability.anchors

\* a one-day call with an event from 00:00 to 23:59 of today
C14_WitnessToday ==
    /\ availability.called
    /\ availability.days_ahead = 1
    /\ availability.anchors # <<>>
    /\ \E ev \in Aggregated : FullDay(ev, Today) /\ ev.end.t = At(Today, 23, 59)
    /\ availability.result[Today] = <<>>

\* C15: whatever the inputs and whichever sources fail, the call returns a map
\* whose keys are exactly the days_ahead consecutive dates starting today, and each
\* day's value is the caller's anchor list, in the caller's order, without the
\* anchors blocked on that day.
C15_MapShape ==
    availability.called =>
        /\ DOMAIN availability.result =
              {(now \div MinutesPerDay) + k : k \in 0..(availability.days_ahead - 1)}
        /\ \A d \in DOMAIN availability.result :
              /\ availability.result[d] =
                    SelectSeq(availability.anchors, LAMBDA a : Listed(d, a))
              /\ \A a \in AvAnchors : Listed(d, a) <=> ~BlockedBy(d, a, Aggregated)

\* a two-day call that removed the middle one of three anchors on a day
C15_Witness ==
    /\ availability.called
    /\ availability.days_ahead = 2
    /\ Len(availability.anchors) = 3
    /\ \E d \in AvDays :
          availability.result[d] = <<availability.anchors[1], availability.anchors[3]>>

\* a call during which both sources raised
C15_WitnessBothFail ==
    /\ availability.called
    /\ availability.cal_raises
    /\ availability.store_raises
    /\ supabase
    /\ availability.days_ahead = 2
    /\ DOMAIN availability.result = {Today, Today + 1}

\* the busy intervals C22 gives the internal tasks: one per task of the user that
\* is not completed and has a parseable scheduled_at, lasting estimated_minutes,
\* or 15 minutes when there is none
ClaimedTaskIntervals ==
    { [start |-> tasks[i].scheduled_at,
       end   |-> [tasks[i].scheduled_at EXCEPT
                     !.t = @ + (IF tasks[i].estimated_minutes = NoMinutes
                                    THEN DefaultMinutes
                                    ELSE tasks[i].estimated_minutes)]] :
      i \in {j \in TaskIds : /\ tasks[j].user_id = availability.user_id
                             /\ tasks[j].status # "completed"
                             /\ tasks[j].scheduled_at.kind \in {"aware", "naive"}} }

\* C22: an internal task contributes a busy interval iff it is not completed and
\* has a parseable scheduled_at; the interval is [scheduled_at, scheduled_at +
\* estimated_minutes), 15 minutes when estimated_minutes is absent; a record with
\* an unparseable timestamp is skipped and changes nothing for the others: the
\* anchors listed are exactly those that no such interval and no calendar event
\* of the day blocks.
C22_InternalTaskIntervals ==
    availability.called /\ supabase /\ ~availability.store_raises =>
        \A d \in AvDays : \A a \in AvAnchors :
            Listed(d, a) <=>
                ~BlockedBy(d, a, ClaimedTaskIntervals
                                    \cup (IF availability.cal_raises THEN {} ELSE calendar))

(***************************************************************************)
(* Specification of the anchor resolver                                    *)
(***************************************************************************)
\* anchor names handed to the resolver: the registry keys, other spellings of
\* them, names holding several keys, and names holding none
ResolverNames ==
    {"Morning Coffee", "morning coffee time", "MORNING COFFEE", "Morning",
     "Start Laptop", "Mid-Morning", "Before Lunch", "Lunch Break", "After Lunch",
     "Afternoon", "Mid-Afternoon", "End of Day", "Evening", "After Dinner",
     "Before Bed", "Night", "late night snack", "Morning Coffe", "Random Nonsense", ""}

BaseDates ==
    {NoBaseDate,
     DateTime(Today, 0, 0, 0, 0),
     DateTime(Today, 7, 0, 30, 0),
     DateTime(Today + 1, 23, 59, 59, 999999),
     DateTime(Today + 6, 14, 0, 0, 1)}

\* datetime.now(tz) at StartNow, with some seconds
ClockReadings ==
    {DateTime(Today, 7, 0, 0, 0), DateTime(Today, 7, 0, 12, 345678)}

AnchorInit ==
    /\ now = StartNow
    /\ supabase = FALSE
    /\ calendar = {}
    /\ tasks = [i \in TaskIds |-> Row("u1", "pending", NoTime, DefaultMinutes, "After Lunch")]
    /\ NoCall

\* the resolver reads nothing but its arguments and the clock: one call per behaviour
AnchorNext ==
    /\ calls = 0
    /\ \E anchor \in ResolverNames, base_date \in BaseDates, clock \in ClockReadings :
          AnchorToTimestamp(anchor, base_date, clock)

AnchorSpec == AnchorInit /\ [][AnchorNext]_vars

(***************************************************************************)
(* Properties of the anchor resolver (checked under AnchorSpec)            *)
(***************************************************************************)
\* the same letter, whatever its case
SameLetter(c, d) == LowerChar(c) = LowerChar(d)

\* k occurs in s when case is ignored
OccursIgnoringCase(k, s) ==
    \E i \in 1..(Len(s) - Len(k) + 1) :
        \A j \in 1..Len(k) : SameLetter(SubSeq(k, j, j), SubSeq(s, i + j - 1, i + j - 1))

\* the base date the call resolved on
ResolvedBase ==
    IF resolved.base_date = NoBaseDate THEN resolved.clock ELSE resolved.base_date

ResolvedAt(h, m) == resolved.result.hour = h /\ resolved.result.minute = m

\* C12: anchor_to_timestamp returns the base date with its time of day replaced by
\* the hour and minute of the first registry key, in registry order, that occurs
\* in the anchor name when case is ignored, or by 14:00 when no key does; seconds
\* and microseconds are zero and the calendar date is that of the base date.
\* "Morning Coffee" and "morning coffee time" give 08:00, "After Lunch" 13:30,
\* "Random Nonsense" 14:00.
C12_FirstRegistryMatch ==
    resolved.called =>
        /\ resolved.result.day = ResolvedBase.day
        /\ resolved.result.second = 0
        /\ resolved.result.microsecond = 0
        /\ \/ \E i \in 1..Len(ANCHOR_TIME_MAP) :
                 /\ OccursIgnoringCase(ANCHOR_TIME_MAP[i].key, resolved.anchor)
                 /\ \A j \in 1..(i - 1) :
                       ~OccursIgnoringCase(ANCHOR_TIME_MAP[j].key, resolved.anchor)
                 /\ ResolvedAt(ANCHOR_TIME_MAP[i].hour, ANCHOR_TIME_MAP[i].minute)
           \/ /\ \A i \in 1..Len(ANCHOR_TIME_MAP) :
                    ~OccursIgnoringCase(ANCHOR_TIME_MAP[i].key, resolved.anchor)
              /\ ResolvedAt(14, 0)
        /\ resolved.anchor \in {"Morning Coffee", "morning coffee time"} => ResolvedAt(8, 0)
        /\ resolved.anchor = "After Lunch" => ResolvedAt(13, 30)
        /\ resolved.anchor = "Random Nonsense" => ResolvedAt(14, 0)

\* a name in another case than the registry's, holding two keys, resolved to the
\* earlier key's time on a base date that had seconds
C12_Witness ==
    /\ resolved.called
    /\ resolved.anchor = "late night snack"
    /\ resolved.base_date = DateTime(Today + 1, 23, 59, 59, 999999)
    /\ resolved.result = DateTime(Today + 1, 21, 0, 0, 0)

\* a name holding a later key in full ("Mid-Morning") resolved by an earlier key
C12_WitnessEarlierKey ==
    /\ resolved.called
    /\ resolved.anchor = "Mid-Morning"
    /\ resolved.base_date = NoBaseDate
    /\ resolved.result.hour = 8
    /\ resolved.result.minute = 0
    /\ resolved.result.day = Today

\* the candidate lists of the slot finder (lines 253-260)
CandidateLists ==
    { <<"Morning Coffee", "Mid-Morning">>, <<"After Lunch", "Mid-Afternoon">>,
      <<"End of Day", "Evening", "After Dinner">>,
      <<"After Lunch", "Mid-Afternoon", "End of Day">> }

\* C27: for each of the 14 registry keys k, anchor_to_timestamp called with the
\* name exactly k gives the time of day registered for k ("Mid-Morning" 10:30,
\* "Mid-Afternoon" 15:30), so the candidate anchors of one class of the slot
\* finder resolve to distinct times within a day.
C27_EveryKeyResolvesToItsTime ==
    resolved.called =>
        /\ \A i \in 1..Len(ANCHOR_TIME_MAP) :
              resolved.anchor = ANCHOR_TIME_MAP[i].key =>
                  ResolvedAt(ANCHOR_TIME_MAP[i].hour, ANCHOR_TIME_MAP[i].minute)
        /\ resolved.anchor = "Mid-Morning" => ResolvedAt(10, 30)
        /\ resolved.anchor = "Mid-Afternoon" => ResolvedAt(15, 30)
        /\ \A list \in CandidateLists : \A j, k \in 1..Len(list) :
              resolved.anchor = list[j] /\ k < j =>
                  anchor_to_datetime(list[k], resolved.base_date, resolved.clock)
                      # resolved.result

(***************************************************************************)
(* Specification of the slot finder                                        *)
(***************************************************************************)
LongMinutes == SearchDays * MinutesPerDay

SlotRows(i) ==
    IF i = 1 THEN
        { Row("u1", "pending",   Aware(At(Today + 1, 8, 0), 0), 15, "Morning Coffee"),
          Row("u1", "completed", Aware(At(Today + 1, 13, 30), 0), 15, "After Lunch"),
          Row("u1", "pending",   Aware(At(Today + 4, 12, 0), 0), LongMinutes, "After Lunch"),
          Row("u1", "pending",   BadTime, 15, "After Lunch"),
          Row("u1", "pending",   NoTime, 15, "Evening") }
    ELSE IF i = 2 THEN
        { Row("u1", "pending", NoTime, 15, "Morning Coffee"),
          Row("u1", "pending", Aware(At(Today + 2, 8, 0), 0), 15, "Morning Coffee"),
          Row("u1", "pending", Aware(At(Today + 4, 12, 0), 0), LongMinutes, "Evening"),
          Row("u1", "pending", Aware(At(Today + 1, 7, 40), 0), 2 * DefaultMinutes, "Morning Coffee"),
          Row("u1", "pending", BadTime, 15, "Evening") }
    ELSE
        { Row("u2", "pending", Aware(At(Today + 1, 13, 30), 0), 15, "After Lunch") }

Preferences == {"Morning Coffee", "morning coffee time", "After Lunch", "Evening",
                "Random Nonsense", "Coffee after lunch", "Dinner and Lunch",
                "BEFORE BED"}

SlotInit ==
    /\ now = StartNow
    /\ supabase \in BOOLEAN
    /\ calendar = {}
    /\ tasks \in {f \in [TaskIds -> UNION {SlotRows(i) : i \in TaskIds}] :
                     \A i \in TaskIds : f[i] \in SlotRows(i)}
    /\ NoCall

\* the finder changes nothing it reads: one call per behaviour
SlotNext ==
    /\ calls = 0
    /\ \E user_id \in Users, anchor_preference \in Preferences,
          estimated_minutes \in {DefaultMinutes, 2 * DefaultMinutes},
          query_raises \in BOOLEAN :
           FindNextAvailableSlot(user_id, anchor_preference, estimated_minutes, query_raises)

SlotSpec == SlotInit /\ [][SlotNext]_vars

(***************************************************************************)
(* Properties of the slot finder (checked under SlotSpec)                  *)
(***************************************************************************)
\* the call reached the store: there is a client and its query did not raise
SlotQueried == slot.called /\ supabase /\ ~slot.query_raises

\* the (day offset, index) pairs of the horizon, in day-major order
Pairs == (0..(SearchDays - 1)) \X (1..Len(TimeSlotsOf[slot.anchor_preference]))
Precedes(p, q) == p[1] < q[1] \/ (p[1] = q[1] /\ p[2] < q[2])
PairName(p) == TimeSlotsOf[slot.anchor_preference][p[2]]
PairTime(p) ==
    anchor_to_timestamp(PairName(p), ((now \div MinutesPerDay) + 1 + p[1]) * MinutesPerDay)

\* some task of the user with a scheduled time t and duration dur has
\* |t - s| < dur + estimatedMinutes
Conflicted(p) ==
    \E i \in TaskIds :
        /\ tasks[i].user_id = slot.user_id
        /\ tasks[i].scheduled_at.kind \in {"aware", "naive"}
        /\ Abs(tasks[i].scheduled_at.t - PairTime(p))
               < tasks[i].estimated_minutes + slot.estimated_minutes

\* C5: the finder returns the first candidate, in day-major order, that no task
\* conflicts with: every candidate before it is conflicted, it is conflict-free,
\* and no conflict-free candidate is earlier in time.
C5_FirstFreeCandidate ==
    SlotQueried /\ (\E p \in Pairs : ~Conflicted(p)) =>
        \E p \in Pairs :
            /\ ~Conflicted(p)
            /\ \A q \in Pairs : Precedes(q, p) => Conflicted(q)
            /\ \A q \in Pairs : ~Conflicted(q) => PairTime(p) <= PairTime(q)
            /\ slot.result.scheduled_at = PairTime(p)
            /\ slot.result.scheduled_text = PairName(p)

\* C6: when every candidate of the horizon is conflicted, the finder returns the
\* preference text unchanged, resolved on the search-start date (tomorrow).
C6_FallbackOnExhaustedHorizon ==
    SlotQueried /\ (\A p \in Pairs : Conflicted(p)) =>
        /\ slot.result.scheduled_text = slot.anchor_preference
        /\ slot.result.scheduled_at =
              anchor_to_timestamp(slot.anchor_preference,
                                  ((now \div MinutesPerDay) + 1) * MinutesPerDay)

\* the calendar day of a slot timestamp, counted from tomorrow (0 = tomorrow)
DaysFromTomorrow(t) == (t \div MinutesPerDay) - ((now \div MinutesPerDay) + 1)

\* the preference holds one of the words, whatever the case of its letters
HoldsWord(words) == \E w \in words : OccursIgnoringCase(w, slot.anchor_preference)

\* the class of the preference: morning before afternoon before evening
PreferenceClass ==
    IF HoldsWord({"morning", "breakfast", "coffee"}) THEN "morning"
    ELSE IF HoldsWord({"lunch", "afternoon"}) THEN "afternoon"
    ELSE IF HoldsWord({"evening", "dinner", "night", "bed"}) THEN "evening"
    ELSE "unclassified"

ClassLabels ==
    CASE PreferenceClass = "morning"   -> {"Morning Coffee", "Mid-Morning"}
      [] PreferenceClass = "afternoon" -> {"After Lunch", "Mid-Afternoon"}
      [] PreferenceClass = "evening"   -> {"End of Day", "Evening", "After Dinner"}
      [] OTHER                         -> {"After Lunch", "Mid-Afternoon", "End of Day"}

\* C25: the preference is classified, case ignored, as morning if it holds
\* morning/breakfast/coffee, otherwise afternoon if it holds lunch/afternoon,
\* otherwise evening if it holds evening/dinner/night/bed, otherwise unclassified;
\* whenever the result comes from the search, its label is one of the class's
\* candidates: morning [Morning Coffee, Mid-Morning], afternoon [After Lunch,
\* Mid-Afternoon], evening [End of Day, Evening, After Dinner], unclassified
\* [After Lunch, Mid-Afternoon, End of Day].
C25_LabelOfPreferenceClass ==
    slot.called /\ slot.result.via = "search" =>
        slot.result.scheduled_text \in ClassLabels

\* a preference holding an evening and an afternoon word: an afternoon label
C25_Witness ==
    /\ slot.called
    /\ slot.result.via = "search"
    /\ slot.anchor_preference = "Dinner and Lunch"
    /\ slot.result.scheduled_text \in {"After Lunch", "Mid-Afternoon"}

\* a preference holding a morning and an afternoon word, and one in capitals
C25_WitnessMorningWins ==
    /\ slot.called
    /\ slot.result.via = "search"
    /\ slot.anchor_preference = "Coffee after lunch"
    /\ slot.result.scheduled_text \in {"Morning Coffee", "Mid-Morning"}

C25_WitnessCapitals ==
    /\ slot.called
    /\ slot.result.via = "search"
    /\ slot.anchor_preference = "BEFORE BED"
    /\ slot.result.scheduled_text \in {"End of Day", "Evening", "After Dinner"}

\* the window [s, s+e) of the slot returned overlaps the interval [t, t+dur) of the row
WindowOverlaps(row) ==
    /\ slot.result.scheduled_at < row.scheduled_at.t + row.estimated_minutes
    /\ slot.result.scheduled_at + slot.estimated_minutes > row.scheduled_at.t

\* C23: whenever find_next_available_slot accepts a candidate at time s for a task
\* of estimatedMinutes e, the window [s, s+e) does not overlap, under the half-open
\* rule of the availability calculator (s < t+dur and s+e > t), the interval
\* [t, t+dur) of any task of the user that has a scheduled time (durations not
\* negative).
C23_AcceptedSlotOverlapsNoTask ==
    slot.called /\ slot.result.via = "search" =>
        \A i \in TaskIds :
            /\ tasks[i].user_id = slot.user_id
            /\ tasks[i].scheduled_at.kind \in {"aware", "naive"}
            /\ tasks[i].estimated_minutes >= 0
            /\ slot.estimated_minutes >= 0
            => ~WindowOverlaps(tasks[i])

\* a task at 07:40 for 30 minutes, which the window of tomorrow 08:00 would
\* overlap: the morning search passed tomorrow and accepted the day after
C23_Witness ==
    /\ slot.called
    /\ slot.result.via = "search"
    /\ slot.result.scheduled_at = At(Today + 2, 8, 0)
    /\ \E i \in TaskIds :
          /\ tasks[i].user_id = slot.user_id
          /\ tasks[i].scheduled_at = Aware(At(Today + 1, 7, 40), 0)
          /\ tasks[i].estimated_minutes = 2 * DefaultMinutes
    /\ \A i \in TaskIds :
          tasks[i].user_id = slot.user_id /\ tasks[i].scheduled_at.kind = "aware"
              => tasks[i].scheduled_at.t # At(Today + 1, 8, 0)

\* the store with every completed task taken off the schedule
WithoutCompleted(store) ==
    [i \in DOMAIN store |->
        IF store[i].status = "completed" THEN [store[i] EXCEPT !.scheduled_at = NoTime]
        ELSE store[i]]

\* the store with every completed task pending again
AllPending(store) ==
    [i \in DOMAIN store |->
        IF store[i].status = "completed" THEN [store[i] EXCEPT !.status = "pending"]
        ELSE store[i]]

\* C30 as stated: a completed task never counts as a conflict in
\* find_next_available_slot, as it never blocks an anchor in
\* get_available_anchors: the finder returns what it would return were the
\* completed tasks not scheduled
C30_CompletedNeverConflicts ==
    slot.called =>
        slot.result = find_next_available_slot(WithoutCompleted(tasks), now, slot.user_id,
                                               slot.anchor_preference,
                                               slot.estimated_minutes, slot.query_raises)

\* C30 (amended): find_next_available_slot counts every task of the user that
\* has a scheduled time as a conflict, whatever its status: its result does not
\* depend on any status, and a slot it accepts is no closer to a completed task
\* than the sum of the two durations
C30_FinderCountsCompletedTasks ==
    slot.called =>
        /\ slot.result = find_next_available_slot(AllPending(tasks), now, slot.user_id,
                                                  slot.anchor_preference,
                                                  slot.estimated_minutes, slot.query_raises)
        /\ slot.result.via = "search" =>
              \A i \in TaskIds :
                  /\ tasks[i].user_id = slot.user_id
                  /\ tasks[i].status = "completed"
                  /\ tasks[i].scheduled_at.kind = "aware"
                  => Abs(tasks[i].scheduled_at.t - slot.result.scheduled_at)
                         >= tasks[i].estimated_minutes + slot.estimated_minutes

\* the only task near tomorrow 13:30 is completed, and the search for "After
\* Lunch" passed that candidate over
C30_Witness ==
    /\ slot.called
    /\ slot.result.via = "search"
    /\ slot.anchor_preference = "After Lunch"
    /\ slot.result.scheduled_at # At(Today + 1, 13, 30)
    /\ \E i \in TaskIds :
          /\ tasks[i].user_id = slot.user_id
          /\ tasks[i].status = "completed"
          /\ tasks[i].scheduled_at = Aware(At(Today + 1, 13, 30), 0)
    /\ \A i \in TaskIds :
          /\ tasks[i].user_id = slot.user_id
          /\ tasks[i].status # "completed"
          /\ tasks[i].scheduled_at.kind = "aware"
          => Abs(tasks[i].scheduled_at.t - At(Today + 1, 13, 30))
                 >= tasks[i].estimated_minutes + slot.estimated_minutes

\* C16: whatever the preference, the tasks and the condition of the store (no
\* client, a failing query, malformed rows, an exhausted search), the finder
\* returns a pair, and its timestamp lies on a calendar day from tomorrow through
\* tomorrow+6; without a usable store the pair is (now + 1 day, the preference as
\* given).
C16_TotalAndNotBeforeTomorrow ==
    slot.called =>
        /\ slot.result.via \in {"no_client", "except", "fallback", "search"}
        /\ DaysFromTomorrow(slot.result.scheduled_at) \in 0..(SearchDays - 1)
        /\ slot.result.scheduled_at > now
        /\ ~supabase \/ slot.query_raises =>
              /\ slot.result.scheduled_at = now + MinutesPerDay
              /\ slot.result.scheduled_text = slot.anchor_preference

\* a call that met a malformed row and still returned a pair on tomorrow
C16_Witness ==
    /\ slot.called
    /\ supabase
    /\ ~slot.query_raises
    /\ \E i \in TaskIds : tasks[i].user_id = slot.user_id /\ tasks[i].scheduled_at.kind = "bad"
    /\ slot.result.via = "except"
    /\ slot.result.scheduled_at = now + MinutesPerDay

\* a call whose search was exhausted, and one whose search passed the first day
C16_WitnessExhausted ==
    /\ slot.called
    /\ slot.result.via = "fallback"
    /\ DaysFromTomorrow(slot.result.scheduled_at) = 0

C16_WitnessLaterDay ==
    /\ slot.called
    /\ slot.result.via = "search"
    /\ DaysFromTomorrow(slot.result.scheduled_at) > 0

C16_WitnessNoStore ==
    /\ slot.called
    /\ ~supabase
    /\ slot.result.via = "no_client"

(***************************************************************************)
(* Specification of the reschedule coordinator and the missed-task sweeper *)
(***************************************************************************)
SweepRows(i) ==
    IF i = 1 THEN
        { Row("u1", "pending",   Aware(At(Today - 1, 8, 0), 0), 15, "Morning Coffee"),
          Row("u1", "completed", Aware(At(Today - 1, 8, 0), 0), 15, "Morning Coffee"),
          Row("u1", "pending",   Aware(StartNow - GraceMinutes, 0), 15, "After Lunch"),
          Row("u1", "pending",   Aware(StartNow - GraceMinutes - 1, 0), 15, None),
          Row("u1", "pending",   BadTime, 15, "After Lunch") }
    ELSE IF i = 2 THEN
        { Row("u1", "in_progress", Aware(At(Today - 1, 13, 30), 0), 15, "morning coffee time"),
          Row("u1", "pending", Aware(At(Today + 1, 8, 0), 0), 15, "Morning Coffee"),
          Row("u1", "pending", NoTime, 15, "Evening"),
          Row("u1", "pending", BadTime, 15, "Evening") }
    ELSE
        { Row("u2", "pending", Aware(At(Today - 1, 13, 30), 0), 15, "After Lunch") }

Init ==
    /\ now = StartNow
    /\ supabase \in BOOLEAN
    /\ calendar = {}
    /\ tasks \in {f \in [TaskIds -> UNION {SweepRows(i) : i \in TaskIds}] :
                     \A i \in TaskIds : f[i] \in SweepRows(i)}
    /\ NoCall

\* the tasks a sweep for user_id calls reschedule_task for when no row aborts it:
\* a store call can raise only where one is made
FaultTargets(user_id, list_raises) ==
    IF ~supabase \/ list_raises THEN {}
    ELSE {i \in TaskIds : /\ tasks[i].user_id = user_id
                          /\ missed_check(tasks[i], now) = "overdue"}

\* the store calls that raise during one sweep, per task handled
FaultPlans(targets) ==
    {f \in [TaskIds -> Faults] : /\ \A i \in TaskIds : f[i] # "none" => i \in targets
                                 /\ Cardinality({i \in TaskIds : f[i] # "none"}) <= MaxFaults}

\* the sweeper, which calls the coordinator for each overdue task, and the clock
Next ==
    \/ /\ calls < MaxCalls
       /\ \E user_id \in Users, list_raises \in BOOLEAN :
             \E faults \in FaultPlans(FaultTargets(user_id, list_raises)) :
                 DetectAndRescheduleMissedTasks(user_id, list_raises, faults, "ok")
    \/ Tick

Spec == Init /\ [][Next]_vars

\* direct calls of the coordinator (task id 0 is in no row), and the clock; without
\* a client no store call is made, so none raises
CoordNext ==
    \/ /\ calls < MaxCalls
       /\ \E task_id \in 0..NumTasks, user_id \in Users,
             fault \in (IF supabase THEN Faults ELSE {"none"}) :
             RescheduleTask(task_id, user_id, fault, "user_requested", "ok")
    \/ Tick

CoordSpec == Init /\ [][CoordNext]_vars

(***************************************************************************)
(* Specification of the four operations, each applied once to a drawn      *)
(* store, calendar and client                                              *)
(***************************************************************************)
\* a row as reschedule_task leaves it (lines 338-344)
Rescheduled(row, at, text) ==
    [row EXCEPT !.scheduled_at = isoformat(at), !.scheduled_text = text,
                !.was_rescheduled = TRUE]

CoreRows(i) ==
    IF i = 1 THEN
        SweepRows(1) \cup
        { Rescheduled(Row("u1", "pending", NoTime, 15, "Morning Coffee"),
                      At(Today + 1, 8, 0), "Morning Coffee") }
    ELSE IF i = 2 THEN
        SweepRows(2) \cup
        { Row("u1", "missed", Aware(At(Today - 2, 8, 0), 0), 20, "Morning Coffee") }
    ELSE
        SweepRows(i) \cup
        { Row("u2", "pending", Aware(At(Today + 1, 13, 30), 0), 15, "After Lunch") }

CoreEvents == {
    Ev(Aware(At(Today, 7, 30), 0), Aware(At(Today, 9, 0), 0)),
    Ev(Aware(At(Today + 1, 13, 0), 0), Aware(At(Today + 1, 14, 0), 0)) }

Reasons == {"user_requested", "user_missed_session"}

CoreInit ==
    /\ now = StartNow
    /\ supabase \in BOOLEAN
    /\ calendar \in {S \in SUBSET CoreEvents : Cardinality(S) <= MaxEvents}
    /\ tasks \in {f \in [TaskIds -> UNION {CoreRows(i) : i \in TaskIds}] :
                     \A i \in TaskIds : f[i] \in CoreRows(i)}
    /\ NoCall

CoreNext ==
    \/ /\ calls = 0
       /\ \E user_id \in Users, anchors \in AnchorLists, days_ahead \in 0..MaxDaysAhead,
             task_duration_minutes \in Durations, cal_raises \in BOOLEAN,
             store_raises \in BOOLEAN :
              GetAvailableAnchors(user_id, anchors, days_ahead, task_duration_minutes,
                                  cal_raises, store_raises)
    \/ /\ calls = 0
       /\ \E user_id \in Users, anchor_preference \in Preferences,
             estimated_minutes \in {DefaultMinutes, 2 * DefaultMinutes},
             query_raises \in BOOLEAN :
              FindNextAvailableSlot(user_id, anchor_preference, estimated_minutes,
                                    query_raises)
    \/ /\ calls = 0
       /\ \E task_id \in 0..NumTasks, user_id \in Users,
             fault \in (IF supabase THEN Faults ELSE {"none"}),
             reason \in Reasons, sink \in Sinks :
              RescheduleTask(task_id, user_id, fault, reason, sink)
    \/ /\ calls = 0
       /\ \E user_id \in Users, list_raises \in BOOLEAN, sink \in Sinks :
             \E faults \in FaultPlans(FaultTargets(user_id, list_raises)) :
                 DetectAndRescheduleMissedTasks(user_id, list_raises, faults, sink)

CoreSpec == CoreInit /\ [][CoreNext]_vars

(***************************************************************************)
(* Specification of interleaved calls: two requests, each a direct         *)
(* reschedule or a sweep, and the task routes, on one store                *)
(***************************************************************************)
RaceRows(i) ==
    IF i = 1 THEN
        { Row("u1", "pending", Aware(At(Today - 1, 8, 0), 0), 15, "Morning Coffee"),
          Row("u1", "pending", Aware(At(Today - 1, 13, 30), 0), 15, "After Lunch") }
    ELSE IF i = 2 THEN
        { Row("u1", "in_progress", Aware(At(Today - 1, 13, 30), 0), 15, "morning coffee time"),
          Row("u1", "pending", Aware(At(Today + 1, 8, 0), 0), 15, "Morning Coffee") }
    ELSE
        { Row("u2", "pending", Aware(At(Today - 1, 13, 30), 0), 15, "After Lunch") }

RaceInit ==
    /\ now = StartNow
    /\ supabase \in BOOLEAN
    /\ calendar = {}
    /\ tasks \in {f \in [TaskIds -> UNION {RaceRows(i) : i \in TaskIds}] :
                     \A i \in TaskIds : f[i] \in RaceRows(i)}
    /\ NoCall

\* the request that arrives takes the first free place: "b" after "a"
Free(p) == procs[p].pc = "idle" /\ (p = "b" => procs["a"].pc # "idle")

\* at most MaxCalls requests arrive, of the engine or of the task routes
RaceNext ==
    \/ /\ calls < MaxCalls
       /\ \E p \in Procs, task_id \in TaskIds, user_id \in Users :
             Free(p) /\ BeginReschedule(p, task_id, user_id)
    \/ /\ calls < MaxCalls
       /\ \E p \in Procs, user_id \in Users : Free(p) /\ BeginSweep(p, user_id)
    \/ \E p \in Procs : SweepScan(p)
    \/ \E p \in Procs : LoadTask(p)
    \/ \E p \in Procs : FindSlot(p)
    \/ \E p \in Procs : UpdateTask(p)
    \/ /\ calls < MaxCalls
       /\ \E i \in TaskIds : CompleteTask(i)
    \/ /\ calls < MaxCalls
       /\ \E i \in TaskIds : DeleteTask(i)

RaceSpec == RaceInit /\ [][RaceNext]_vars

(***************************************************************************)
(* Properties of the sweeper (checked under Spec) and of the coordinator   *)
(* (checked under CoordSpec)                                               *)
(***************************************************************************)
Range(seq) == {seq[k] : k \in 1..Len(seq)}

\* C7: of two sweeps run in immediate succession for the same user, the second
\* returns no task id the first returned, and reschedules no task the first one
\* rescheduled.
C7_IdempotentSweep ==
    sweep.called /\ prev_sweep.called /\ sweep.user_id = prev_sweep.user_id =>
        /\ Range(sweep.result) \cap Range(prev_sweep.result) = {}
        /\ sweep.succeeded \cap prev_sweep.succeeded = {}

\* two successive sweeps for one user, the first of which rescheduled a task that
\* the second found in the store with its new time
C7_Witness ==
    /\ sweep.called
    /\ prev_sweep.called
    /\ sweep.user_id = prev_sweep.user_id
    /\ sweep.clock = prev_sweep.clock
    /\ \E i \in Range(prev_sweep.result) :
          /\ prev_sweep.before[i].scheduled_at.t < prev_sweep.clock - GraceMinutes
          /\ sweep.before[i].scheduled_at.t > sweep.clock
          /\ i \notin sweep.invoked

\* the sweep reached the store: there is a client and the listing did not raise
SweepLoaded == sweep.called /\ supabase /\ ~sweep.list_raises

\* not completed, scheduled, and scheduled strictly before now minus one hour
Overdue(row, clock) ==
    /\ row.status # "completed"
    /\ row.scheduled_at.kind \in {"aware", "naive"}
    /\ row.scheduled_at.t < clock - GraceMinutes

\* C8: within one sweep the coordinator is invoked for a task of the user iff the
\* task is not completed, has a scheduled_at, and that is strictly earlier than
\* now minus one hour; every other task is left as it was.
C8_SelectionRule ==
    SweepLoaded =>
        \A i \in TaskIds :
            sweep.before[i].user_id = sweep.user_id =>
                /\ i \in sweep.invoked <=> Overdue(sweep.before[i], sweep.clock)
                /\ ~Overdue(sweep.before[i], sweep.clock) => tasks[i] = sweep.before[i]

\* C9: the list a sweep returns holds exactly the ids of the tasks whose
\* reschedule succeeded (row updated, coordinator returned true) in that sweep.
C9_ResultIsSucceeded ==
    sweep.called =>
        /\ Range(sweep.result) = sweep.succeeded
        /\ \A i \in TaskIds : tasks[i] # sweep.before[i] => i \in Range(sweep.result)

\* a step that is a direct call of reschedule_task returning true
RescheduleReturnsTrue == calls' # calls /\ resched'.called /\ resched'.success

\* C10: when reschedule_task returns true, the stored row has scheduled_at equal to
\* the timestamp of the slot the finder returns for the row's assigned anchor and
\* estimated minutes, scheduled_text equal to that slot's label, and
\* was_rescheduled = true.
C10_StoredSlot ==
    [][RescheduleReturnsTrue =>
          LET id       == resched'.task_id
              found    == find_next_available_slot(tasks, now, resched'.user_id,
                              tasks[id].assigned_anchor, tasks[id].estimated_minutes,
                              resched'.fault = "find")
          IN  /\ tasks'[id].scheduled_at = isoformat(found.scheduled_at)
              /\ tasks'[id].scheduled_text = found.scheduled_text
              /\ tasks'[id].was_rescheduled = TRUE]_vars

\* a successful reschedule whose slot came from the search and whose label is not
\* the task's own anchor text
C10_Witness ==
    /\ resched.called
    /\ resched.success
    /\ resched.new_slot.via = "search"
    /\ tasks[resched.task_id].scheduled_at = isoformat(resched.new_slot.scheduled_at)
    /\ tasks[resched.task_id].scheduled_text # tasks[resched.task_id].assigned_anchor
    /\ tasks[resched.task_id].was_rescheduled

\* C26: reschedule_task on a stored task without an assigned anchor uses "After
\* Lunch" as the preference of the slot finder: the task is rescheduled through
\* the search over the afternoon candidates and gets "After Lunch" or
\* "Mid-Afternoon" as its scheduled_text.
C26_DefaultAnchorAfterLunch ==
    /\ resched.called
    /\ resched.success
    /\ resched.fault = "none"
    /\ tasks[resched.task_id].assigned_anchor = None
    => /\ resched.new_slot.via = "search"
       /\ resched.new_slot.scheduled_text \in {"After Lunch", "Mid-Afternoon"}
       /\ tasks[resched.task_id].scheduled_text \in {"After Lunch", "Mid-Afternoon"}

(***************************************************************************)
(* Properties of single calls (checked under CoreSpec)                     *)
(***************************************************************************)
\* a step that is a direct call of reschedule_task returning false
RescheduleReturnsFalse == calls' # calls /\ resched'.called /\ ~resched'.success

\* C11: whenever reschedule_task returns false (no client, no such task for the
\* id and user, or an exception during the load or the update), it has returned a
\* value rather than raised, and scheduled_at, scheduled_text and was_rescheduled
\* of every task are what they were before the call.
C11_FailedRescheduleLeavesTask ==
    [][RescheduleReturnsFalse =>
          /\ resched'.success \in BOOLEAN
          /\ DOMAIN tasks' = DOMAIN tasks
          /\ \A i \in DOMAIN tasks :
                /\ tasks'[i].scheduled_at = tasks[i].scheduled_at
                /\ tasks'[i].scheduled_text = tasks[i].scheduled_text
                /\ tasks'[i].was_rescheduled = tasks[i].was_rescheduled]_vars

\* a call that found the task and a slot for it, whose update raised: false is
\* returned and the row still has its overdue time
C11_Witness ==
    /\ resched.called
    /\ ~resched.success
    /\ resched.fault = "update"
    /\ resched.new_slot.via = "search"
    /\ resched.task_id \in DOMAIN tasks
    /\ tasks[resched.task_id].scheduled_at.kind = "aware"
    /\ tasks[resched.task_id].scheduled_at.t < now - GraceMinutes
    /\ ~tasks[resched.task_id].was_rescheduled


\* a step that is a direct call of reschedule_task, and one that is a sweep
RescheduleStep == calls' # calls /\ resched'.called
SweepStep == calls' # calls /\ sweep'.called

\* the event a successful reschedule of the row hands over
EventOf(id, row, new_slot, reason) ==
    [task_id |-> id,
     original_date |-> IF row.scheduled_at.kind = "none" THEN Unknown ELSE row.scheduled_at,
     new_date |-> Naive(new_slot.scheduled_at),
     reason |-> reason,
     written |-> isoformat(new_slot.scheduled_at)]

\* the audit of a direct call
RescheduleAudited ==
    RescheduleStep =>
        LET id == resched'.task_id
            ok == reschedule_task(tasks, now, id, resched'.user_id, resched'.fault,
                                  resched'.reason, "ok")
        IN  /\ resched'.success =>
                  /\ resched'.logged =
                        <<EventOf(id, tasks[id], resched'.new_slot, resched'.reason)>>
                  /\ tasks'[id].scheduled_at = resched'.logged[1].written
            /\ ~resched'.success => resched'.logged = <<>>
            /\ resched'.success = ok.success
            /\ tasks' = ok.store
            /\ resched'.sink # "ok" => resched'.traced = <<>>

\* the audit of the calls a sweep makes
SweepAudited ==
    SweepStep =>
        /\ Len(sweep'.logged) = Cardinality(sweep'.succeeded)
        /\ {sweep'.logged[k].task_id : k \in 1..Len(sweep'.logged)} = sweep'.succeeded
        /\ \A k \in 1..Len(sweep'.logged) :
              /\ sweep'.logged[k].reason = "auto_missed_deadline"
              /\ sweep'.logged[k].original_date = tasks[sweep'.logged[k].task_id].scheduled_at
              /\ sweep'.logged[k].written = tasks'[sweep'.logged[k].task_id].scheduled_at

\* C17: a reschedule_task call that returns true hands exactly one event (task id,
\* original date, new date, the caller's reason; "auto_missed_deadline" in a sweep)
\* to the audit sink, and the row already holds the new time when it does; a call
\* that returns false hands over none; what the sink does with the event (no
\* client, stored, raised) changes neither the value returned nor the store.
C17_AuditEmission == [][RescheduleAudited /\ SweepAudited]_vars

\* a reschedule that returned true although the sink raised: one event was handed
\* over, none stored, and the row has the new time
C17_Witness ==
    /\ resched.called
    /\ resched.success
    /\ resched.sink = "raises"
    /\ resched.reason = "user_missed_session"
    /\ Len(resched.logged) = 1
    /\ resched.traced = <<>>
    /\ tasks[resched.task_id].scheduled_at = resched.logged[1].written
    /\ tasks[resched.task_id].was_rescheduled

\* a sweep that rescheduled two tasks and handed over two events
C17_WitnessSweep ==
    /\ sweep.called
    /\ Len(sweep.logged) = 2
    /\ sweep.logged[1].task_id # sweep.logged[2].task_id
    /\ sweep.logged[1].reason = "auto_missed_deadline"


\* a step that is a call of get_available_anchors, or of find_next_available_slot
AvailStep == calls' # calls /\ availability'.called
SlotStep == calls' # calls /\ slot'.called

\* the row with the three fields reschedule_task writes taken from another row
WithScheduleOf(row, other) ==
    [row EXCEPT !.scheduled_at = other.scheduled_at,
                !.scheduled_text = other.scheduled_text,
                !.was_rescheduled = other.was_rescheduled]

\* what every step keeps: the set of rows, and the owner, status, assigned_anchor
\* and estimated_minutes of each
RowsKept ==
    /\ DOMAIN tasks' = DOMAIN tasks
    /\ \A i \in DOMAIN tasks :
          /\ tasks'[i].user_id = tasks[i].user_id
          /\ tasks'[i].status = tasks[i].status
          /\ tasks'[i].assigned_anchor = tasks[i].assigned_anchor
          /\ tasks'[i].estimated_minutes = tasks[i].estimated_minutes

\* reschedule_task writes three fields of the targeted row and nothing else
OnlyTargetWritten ==
    RescheduleStep =>
        \A i \in DOMAIN tasks :
            IF i = resched'.task_id
                THEN WithScheduleOf(tasks'[i], tasks[i]) = tasks[i]
                ELSE tasks'[i] = tasks[i]

\* C18: no call of the four operations creates or deletes a task row or changes a
\* task's status, assigned_anchor or estimated_minutes; get_available_anchors and
\* find_next_available_slot change no field of any task; reschedule_task changes
\* only scheduled_at, scheduled_text and was_rescheduled of the targeted task.
C18_FrameCondition ==
    [][/\ RowsKept
       /\ (AvailStep \/ SlotStep => tasks' = tasks)
       /\ OnlyTargetWritten]_vars

\* a reschedule that moved an in-progress task and relabelled it: its status,
\* anchor and duration are those it had
C18_Witness ==
    /\ resched.called
    /\ resched.success
    /\ tasks[resched.task_id].status = "in_progress"
    /\ tasks[resched.task_id].assigned_anchor = "morning coffee time"
    /\ tasks[resched.task_id].scheduled_text = "Morning Coffee"
    /\ tasks[resched.task_id].was_rescheduled
    /\ tasks[resched.task_id].scheduled_at.t > now

\* a sweep that moved two tasks
C18_WitnessSweep ==
    /\ sweep.called
    /\ Cardinality(sweep.succeeded) = 2
    /\ \A i \in sweep.succeeded : tasks[i] # sweep.before[i]


\* other contents for a row of another user: times the caller's anchors and slots
\* fall on, and a malformed one
OtherRows(u) ==
    { Row(u, "pending", Aware(At(Today + 1, 8, 0), 0), 15, "Morning Coffee"),
      Row(u, "pending", Aware(At(Today + 1, 13, 30), 0), 15, "After Lunch"),
      Row(u, "in_progress", Aware(At(Today - 1, 17, 0), 0), 15, "End of Day"),
      Row(u, "pending", BadTime, 15, "After Lunch") }

\* the stores that differ from the given one in one row of a user other than user_id
StoresDifferingForOthers(store, user_id) ==
    UNION { {[store EXCEPT ![i] = row] : row \in OtherRows(store[i].user_id)} :
            i \in {j \in DOMAIN store : store[j].user_id # user_id} }

\* the rows of the store that belong to the user, by id
OwnRows(store, user_id) ==
    [i \in {j \in DOMAIN store : store[j].user_id = user_id} |-> store[i]]

\* no step writes a row of a user other than the one it was called for
OthersUntouched ==
    /\ RescheduleStep =>
          \A i \in DOMAIN tasks :
              tasks[i].user_id # resched'.user_id => tasks'[i] = tasks[i]
    /\ SweepStep =>
          \A i \in DOMAIN tasks :
              tasks[i].user_id # sweep'.user_id => tasks'[i] = tasks[i]
    /\ (AvailStep \/ SlotStep) => tasks' = tasks

\* reschedule_task for a task of another user returns false and writes nothing
ForeignTaskRefused ==
    RescheduleStep /\ resched'.task_id \in DOMAIN tasks =>
        (tasks[resched'.task_id].user_id # resched'.user_id =>
            ~resched'.success /\ tasks' = tasks)

\* what the call returned and wrote is what it returns and writes on every store
\* that differs only in a row of another user
OthersIrrelevant ==
    /\ AvailStep =>
          \A alt \in StoresDifferingForOthers(tasks, availability'.user_id) :
              availability'.result =
                  availability_map(
                      all_busy(alt, calendar, availability'.user_id,
                               availability'.cal_raises, availability'.store_raises),
                      availability'.anchors, availability'.days_ahead,
                      availability'.task_duration_minutes, now \div MinutesPerDay)
    /\ SlotStep =>
          \A alt \in StoresDifferingForOthers(tasks, slot'.user_id) :
              slot'.result =
                  find_next_available_slot(alt, now, slot'.user_id, slot'.anchor_preference,
                                           slot'.estimated_minutes, slot'.query_raises)
    /\ RescheduleStep =>
          \A alt \in StoresDifferingForOthers(tasks, resched'.user_id) :
              \E r \in {reschedule_task(alt, now, resched'.task_id, resched'.user_id,
                                        resched'.fault, resched'.reason, resched'.sink)} :
                  /\ r.success = resched'.success
                  /\ r.new_slot = resched'.new_slot
                  /\ OwnRows(r.store, resched'.user_id) = OwnRows(tasks', resched'.user_id)

\* C19: an operation called for one user never modifies a task of another user,
\* and what it returns does not depend on the other users' tasks: reschedule_task
\* for a task of another user returns false and leaves it unchanged, and on two
\* stores that differ only in another user's tasks the caller gets the same
\* availability map, the same slot and the same reschedule.
C19_UserScoping ==
    [][OthersUntouched /\ ForeignTaskRefused /\ OthersIrrelevant]_vars

\* a reschedule asked by one user for an existing task of another, with a working
\* store: refused, the task as it was
C19_Witness ==
    /\ resched.called
    /\ supabase
    /\ resched.fault = "none"
    /\ resched.task_id \in DOMAIN tasks
    /\ tasks[resched.task_id].user_id # resched.user_id
    /\ ~resched.success
    /\ ~tasks[resched.task_id].was_rescheduled

\* a slot found for u1 at a time where a task of u2 is scheduled
C19_WitnessSlot ==
    /\ slot.called
    /\ slot.user_id = "u1"
    /\ slot.result.via = "search"
    /\ \E i \in TaskIds :
          /\ tasks[i].user_id = "u2"
          /\ tasks[i].scheduled_at = isoformat(slot.result.scheduled_at)


UpdateStepOf(p) == procs[p].pc = "update" /\ procs'[p].pc # "update"

\* the update writes what the search found, whatever the store holds by then
WritesWhatWasFound(p) ==
    UpdateStepOf(p) /\ procs[p].task_id \in DOMAIN tasks =>
        /\ tasks'[procs[p].task_id].scheduled_at = isoformat(procs[p].new_slot.scheduled_at)
        /\ tasks'[procs[p].task_id].scheduled_text = procs[p].new_slot.scheduled_text
        /\ tasks'[procs[p].task_id].was_rescheduled

\* C21: nothing is checked or locked between the slot search and the update of a
\* reschedule: the update writes the slot the search found even when another
\* reschedule of the same user, whose search read the store before this update,
\* has meanwhile written or will write the same slot; two distinct tasks on the
\* same searched slot are reachable (C21_Witness).
C21_NoCheckBetweenSearchAndUpdate == [][\A p \in Procs : WritesWhatWasFound(p)]_vars

\* two reschedules of distinct tasks of one user, each of whose searches read the
\* other task still at its old time: both tasks end on the same searched slot
C21_Witness ==
    /\ procs["a"].pc = "done"
    /\ procs["b"].pc = "done"
    /\ procs["a"].success
    /\ procs["b"].success
    /\ procs["a"].user_id = procs["b"].user_id
    /\ procs["a"].task_id # procs["b"].task_id
    /\ procs["a"].new_slot.via = "search"
    /\ procs["b"].new_slot.via = "search"
    /\ ~procs["a"].existing_tasks[procs["b"].task_id].was_rescheduled
    /\ ~procs["b"].existing_tasks[procs["a"].task_id].was_rescheduled
    /\ {procs["a"].task_id, procs["b"].task_id} \subseteq DOMAIN tasks
    /\ tasks[procs["a"].task_id].scheduled_at = isoformat(procs["a"].new_slot.scheduled_at)
    /\ tasks[procs["b"].task_id].scheduled_at = tasks[procs["a"].task_id].scheduled_at


(***************************************************************************)
(* Malformed records (checked under CoreSpec)                              *)
(***************************************************************************)
\* the store without the records whose scheduled_at cannot be parsed: such a
\* record, being skipped, counts like one that has no scheduled_at
WithoutUnparseable(store) ==
    [i \in DOMAIN store |->
        IF store[i].scheduled_at.kind = "bad"
            THEN [store[i] EXCEPT !.scheduled_at = NoTime]
            ELSE store[i]]

\* C24: a task record whose scheduled_at cannot be parsed is skipped and the
\* others are processed as if it were absent: find_next_available_slot returns
\* what it returns on the store without that record, and a sweep still hands
\* every other overdue task to the coordinator and reports those rescheduled.
C24_MalformedRecordSkipped ==
    /\ slot.called /\ supabase /\ ~slot.query_raises =>
          slot.result =
              find_next_available_slot(WithoutUnparseable(tasks), now, slot.user_id,
                                       slot.anchor_preference, slot.estimated_minutes,
                                       FALSE)
    /\ sweep.called /\ supabase /\ ~sweep.list_raises =>
          \A i \in TaskIds :
              /\ sweep.before[i].user_id = sweep.user_id
              /\ sweep.before[i].scheduled_at.kind = "aware"
              /\ Overdue(sweep.before[i], sweep.clock)
              => /\ i \in sweep.invoked
                 /\ i \in sweep.succeeded => i \in Range(sweep.result)


(***************************************************************************)
(* Completeness of the sweep (checked under Spec)                          *)
(***************************************************************************)
\* no store call of the sweep failed, and every stored scheduled_at of the user
\* is absent or a timestamp with an offset
SweepUndisturbed ==
    /\ SweepLoaded
    /\ \A i \in TaskIds : sweep.faults[i] = "none"
    /\ \A i \in TaskIds :
          sweep.before[i].user_id = sweep.user_id =>
              sweep.before[i].scheduled_at.kind \in {"none", "aware"}

\* C28: when the task store is available and every task record is well formed,
\* the sweep ends having reached each loaded task exactly once, in order; at
\* its end no task of the user that is not completed is scheduled earlier
\* than the sweep's now minus one hour, and every task that was overdue has
\* been moved to tomorrow or later and is in the returned list
C28_SweepLeavesNothingOverdue ==
    SweepUndisturbed =>
        /\ ~sweep.aborted
        /\ Len(sweep.visited) = Cardinality(Range(sweep.visited))
        /\ Range(sweep.visited) =
              {i \in TaskIds : sweep.before[i].user_id = sweep.user_id}
        /\ \A i \in TaskIds :
              tasks[i].user_id = sweep.user_id => ~Overdue(tasks[i], sweep.clock)
        /\ \A i \in TaskIds :
              /\ sweep.before[i].user_id = sweep.user_id
              /\ Overdue(sweep.before[i], sweep.clock)
              => /\ i \in Range(sweep.result)
                 /\ tasks[i].scheduled_at.kind = "aware"
                 /\ tasks[i].scheduled_at.t >= search_date(sweep.clock)

\* an undisturbed sweep that found two overdue tasks and moved both
C28_Witness ==
    /\ SweepUndisturbed
    /\ Len(sweep.result) >= 2
    /\ \A k \in 1..Len(sweep.result) :
          /\ Overdue(sweep.before[sweep.result[k]], sweep.clock)
          /\ tasks[sweep.result[k]].scheduled_at.t >= search_date(sweep.clock)


(***************************************************************************)
(* The sweeper and the task routes (checked under RaceSpec)                *)
(***************************************************************************)
\* the sweep p makes the update of a task that is by now completed or deleted
SweepWriteOfFinishedTask(p) ==
    /\ UpdateStepOf(p)
    /\ procs[p].kind = "sweep"
    /\ \/ procs[p].task_id \notin DOMAIN tasks
       \/ tasks[procs[p].task_id].status = "completed"

FinishedTaskLeftAlone(p) ==
    SweepWriteOfFinishedTask(p) =>
        /\ procs'[p].rescheduled = procs[p].rescheduled
        /\ procs[p].task_id \in DOMAIN tasks =>
              /\ tasks'[procs[p].task_id].scheduled_at = tasks[procs[p].task_id].scheduled_at
              /\ tasks'[procs[p].task_id].scheduled_text = tasks[procs[p].task_id].scheduled_text
              /\ tasks'[procs[p].task_id].was_rescheduled = tasks[procs[p].task_id].was_rescheduled

\* C29 as stated: a task completed or deleted after the sweep loaded its list
\* and before that task's update keeps its scheduled_at, scheduled_text and
\* was_rescheduled, and its id is not returned as rescheduled
C29_FinishedTaskNotRescheduled == [][\A p \in Procs : FinishedTaskLeftAlone(p)]_vars

\* the status the sweeper goes by is the one in the list it loaded: every update
\* of a sweep is for a task that list shows overdue and not completed, and the
\* update is made whatever the status of the task is by then
SweepGoesByLoadedList(p) ==
    UpdateStepOf(p) /\ procs[p].kind = "sweep" =>
        /\ Overdue(procs[p].loaded[procs[p].task_id], procs[p].clock)
        /\ procs'[p].rescheduled = Append(procs[p].rescheduled, procs[p].task_id)
        /\ procs[p].task_id \in DOMAIN tasks =>
              /\ tasks'[procs[p].task_id].scheduled_at =
                    isoformat(procs[p].new_slot.scheduled_at)
              /\ tasks'[procs[p].task_id].was_rescheduled
              /\ tasks'[procs[p].task_id].status = tasks[procs[p].task_id].status

\* C29 (amended): the sweeper never starts a reschedule for a task that is
\* completed in the task list it loaded; a task completed or deleted after the
\* list was loaded and before its update is still written (if the row exists)
\* and its id returned as rescheduled; the status is never changed
C29_SweepGoesByLoadedList == [][\A p \in Procs : SweepGoesByLoadedList(p)]_vars

\* a sweep has rescheduled and returned a task that its list showed pending and
\* that the query of its own slot search, made before the update, showed completed
C29_Witness ==
    \E p \in Procs :
        /\ procs[p].kind = "sweep"
        /\ procs[p].pc \in {"scan", "done"}
        /\ procs[p].success
        /\ procs[p].task_id \in Range(procs[p].rescheduled)
        /\ procs[p].loaded[procs[p].task_id].status # "completed"
        /\ procs[p].task_id \in DOMAIN procs[p].existing_tasks
        /\ procs[p].existing_tasks[procs[p].task_id].status = "completed"
        /\ procs[p].task_id \in DOMAIN tasks
        /\ tasks[procs[p].task_id].status = "completed"
        /\ tasks[procs[p].task_id].was_rescheduled
        /\ tasks[procs[p].task_id].scheduled_at = isoformat(procs[p].new_slot.scheduled_at)

====
